---- MODULE Spec2Model ----
(***************************************************************************)
(* Transport core of the BlueALSA daemon (src/src/ba-transport.c).         *)
(*                                                                         *)
(* The state is the set of transports of one device (struct ba_transport), *)
(* the device's transports table, the descriptors open in the process, the *)
(* worker threads of every transport and the position of every caller      *)
(* thread inside a blocking operation (destroy, stop, unref).               *)
(***************************************************************************)
EXTENDS Integers, Sequences, FiniteSets, TLC

(***************************************************************************)
(* Bounds of the model.                                                    *)
(***************************************************************************)
MaxTransports == 2
MaxPaths == 1
NumCallers == 2
MaxHeld == 1
MaxFd == 3
CapabilitiesSize == 2
MaxPipe == 2
MaxFdList == 2
MaxLevelSteps == 1
MaxSignals == 2
MaxRefs == 4

(***************************************************************************)
(* Program constants.                                                      *)
(***************************************************************************)
\* config.main_thread: the thread id that marks an unused worker slot.
\* Caller 1 is the main thread of the daemon.
MainThread == 1
\* No owner of a mutex.
NoOwner == 0
\* NULL entry of the transports table / no transport.
NULL == 0
\* Descriptor value of a closed descriptor field.
Closed == -1

TIds == 1..MaxTransports
Paths == 1..MaxPaths
Callers == 1..NumCallers
FDs == 0..(MaxFd - 1)
Slots == {"thread_enc", "thread_dec"}
PcmIdx == {1, 2}

\* The MTUs an Acquire reply carries in the model, and the MTU
\* hci_sco_get_mtu() reports.
MtuRead == 672
MtuWrite == 895
MtuSco == 48
\* max_bt_volume of the PCMs of an A2DP and of a SCO transport.
MaxBtVolumeA2DP == 127
MaxBtVolumeSCO == 15
\* config.a2dp.volume: whether the A2DP volume is left to the peer.  The
\* daemon's default is software volume.
A2dpNativeVolume == FALSE

ProfilesA2DP == {"A2DP_SOURCE", "A2DP_SINK"}
ProfilesHFP == {"HFP_HF", "HFP_AG"}
ProfilesHSP == {"HSP_HS", "HSP_AG"}
ProfilesSCO == ProfilesHFP \cup ProfilesHSP
\* The profiles transports are created with in the model.
Profiles == {"A2DP_SOURCE", "A2DP_SINK", "HFP_AG"}

A2dpStates == {"IDLE", "PENDING", "ACTIVE"}

\* BA_TRANSPORT_PROFILE_MASK_A2DP / _SCO tests.
IsA2DP(profile) == profile \in ProfilesA2DP
IsSCO(profile) == profile \in ProfilesSCO

\* Thread id of the worker running on slot s of transport t.
SlotNo(s) == IF s = "thread_enc" THEN 1 ELSE 2
WorkerId(t, s) == 10 * t + SlotNo(s)

VARIABLES
  tr,         \* tr[t]: the struct ba_transport with id t
  transports, \* device->transports: path -> transport id or NULL
  open_fds,   \* descriptors open in the process
  worker,     \* worker[t][s]: execution state of the worker thread of a slot
  pc,         \* pc[c]: position of caller thread c
  arg,        \* arg[c]: the transport caller c is operating on
  held,       \* held[c][t]: references caller c took (lookup, ref) and still holds
  cref,       \* cref[t]: the reference taken at creation is still outstanding
  link,       \* link[t]: how the last acquire or release call on t ended
  blocked,    \* blocked[t]: destroy was called on t with both workers in their loop
  last        \* the call that returned in the last step, and what it did

vars ==
  <<tr, transports, open_fds, worker, pc, arg, held, cref, link, blocked, last>>

\* A worker slot as transport_thread_init() sets it before it creates the
\* pipe: the sentinel id, and no descriptor in pipe[0] and pipe[1]
\* (pipe_open[k] says that the descriptor of that end is not -1; the numbers
\* of the pipe descriptors are not modelled).  pipe is what the pipe holds;
\* sent and rcvd are its history: the signals written to it and the signals
\* read from it.
ThreadInit ==
  [id |-> MainThread, running |-> FALSE, pipe |-> <<>>,
   pipe_open |-> <<FALSE, FALSE>>, sent |-> <<>>, rcvd |-> <<>>]

\* The slot once pipe() has succeeded.
ThreadPiped == [ThreadInit EXCEPT !.pipe_open = <<TRUE, TRUE>>]

\* A channel volume of zeroed memory: level 0, not muted.
VolumeInit == [level |-> 0, muted |-> FALSE]

\* A PCM endpoint after transport_pcm_init(): no client, both mutexes free,
\* the volume fields as calloc left them.
PcmInit ==
  [fd |-> Closed, mutex |-> NoOwner, synced_mtx |-> NoOwner,
   volume |-> <<VolumeInit, VolumeInit>>, soft_volume |-> FALSE,
   max_bt_volume |-> 0]

\* Memory not (or no longer) holding a transport.
NoTransport(m) ==
  [mem |-> m, ref_count |-> 0, path |-> NULL, profile |-> "NONE",
   codec |-> "NONE", owner |-> FALSE, bt_fd |-> Closed, bt_sock |-> Closed,
   mtu_read |-> 0, mtu_write |-> 0, state |-> "IDLE",
   pcm |-> <<PcmInit, PcmInit>>, registered |-> FALSE, rfcomm |-> FALSE,
   type_mtx |-> NoOwner, bt_fd_mtx |-> NoOwner,
   codec_selection_completed_mtx |-> NoOwner,
   rfcomm_signal |-> "none", configuration |-> <<>>,
   thread_enc |-> ThreadInit, thread_dec |-> ThreadInit]

\* The lowest descriptor not open, as the kernel hands it out; Closed if
\* the process has no descriptor left.
NewFd(open) ==
  IF FDs \ open = {} THEN Closed
  ELSE CHOOSE fd \in FDs \ open : \A g \in FDs \ open : fd <= g

\* The record of the call that returned in the step leading to the current
\* state (NoCall if none did): what was called on which transport, what it
\* returned, the RPC it issued, the descriptors it opened and closed, and
\* bt_fd, link and the A2DP state of the transport when it was called,
\* errno where the operation sets it, the slots it created a worker on, the
\* state ba_transport_set_a2dp_state was called with, and the codec id or
\* stream endpoint a codec selection was called with.
NoCall == [op |-> "none", t |-> NULL, ret |-> 0, rpc |-> "none",
           opened |-> {}, closed |-> {}, pre_fd |-> Closed, pre_link |-> "none",
           pre_state |-> "IDLE", errno |-> "none", created |-> {},
           target |-> "none", input |-> "none"]
Call(op, t, ret, rpc, opened, closed) ==
  [op |-> op, t |-> t, ret |-> ret, rpc |-> rpc,
   opened |-> opened, closed |-> closed,
   pre_fd |-> tr[t].bt_fd, pre_link |-> link[t], pre_state |-> tr[t].state,
   errno |-> "none", created |-> {}, target |-> "none", input |-> "none"]

\* link[t] after an acquire call returned ret: "acquired" once an acquire
\* has succeeded.
AfterAcquire(l, ret) == IF ret # Closed THEN "acquired" ELSE l

\* link[t] after a release call returned ret: "released" if it returned 0,
\* "failed" otherwise.
AfterRelease(ret) == IF ret = 0 THEN "released" ELSE "failed"

WorkerInit == [st |-> "none", cancel |-> FALSE]
Idle == <<"idle", "">>

Init ==
  /\ tr = [t \in TIds |-> NoTransport("none")]
  /\ transports = [p \in Paths |-> NULL]
  /\ open_fds = {}
  /\ worker = [t \in TIds |-> [s \in Slots |-> WorkerInit]]
  /\ pc = [c \in Callers |-> Idle]
  /\ arg = [c \in Callers |-> NULL]
  /\ held = [c \in Callers |-> [t \in TIds |-> 0]]
  /\ cref = [t \in TIds |-> FALSE]
  /\ link = [t \in TIds |-> "none"]
  /\ blocked = [t \in TIds |-> FALSE]
  /\ last = NoCall

(***************************************************************************)
(* Acquire and release strategies, as functions of the transport r and of  *)
(* what the environment answers.  Each yields the transport afterwards, the *)
(* return value, the RPC issued and the descriptors opened and closed.      *)
(***************************************************************************)
Outcome(r, ret, rpc, opened, closed) ==
  [t |-> r, ret |-> ret, rpc |-> rpc, opened |-> opened, closed |-> closed]

\* The descriptor lists attached to a reply: up to MaxFdList sockets, the
\* socket at position k of a list being socket k.
FdLists == {[k \in 1..n |-> k - 1] : n \in 0..MaxFdList}

\* What the Bluetooth daemon answers to Acquire/TryAcquire: no reply at all,
\* an error reply, or a body (fd-index, mtu_read, mtu_write) with a list of
\* descriptors attached.
AcquireRepliesA2DP ==
  {[reply |-> k, handle |-> 0, fd_list |-> <<>>, mtu_read |-> 0, mtu_write |-> 0] :
     k \in {"none", "error"}}
  \cup
  {[reply |-> "ok", handle |-> h, fd_list |-> l,
    mtu_read |-> MtuRead, mtu_write |-> MtuWrite] :
     h \in 0..(MaxFdList - 1), l \in FdLists}

\* g_unix_fd_list_get(list, index): a new descriptor of the process for the
\* socket at the index (counted from 0), -1 if the list has no such entry
\* or the process has no descriptor left.
g_unix_fd_list_get(fd_list, index, open) ==
  IF index < Len(fd_list) /\ NewFd(open) # Closed
  THEN [fd |-> NewFd(open), sock |-> fd_list[index + 1]]
  ELSE [fd |-> Closed, sock |-> Closed]

\* What the kernel answers to hci_sco_open, hci_sco_connect, hci_sco_get_mtu.
AcquireRepliesSCO ==
  {[open_ok |-> o, connect_ok |-> k, mtu |-> MtuSco] :
     o \in BOOLEAN, k \in BOOLEAN}

\* What the Bluetooth daemon answers to Release: a reply, no reply message
\* (send failed), one of the errors taken as success (NO_REPLY,
\* SERVICE_UNKNOWN, UNKNOWN_OBJECT), or another error.
ReleaseReplies == {"ok", "none", "benign", "error"}

\* An A2DP acquire without the keep-alive check: it asks the daemon again
\* although bt_fd is open.
transport_acquire_bt_a2dp_again(r, out, open) ==
  LET method == IF r.state = "PENDING" THEN "TryAcquire" ELSE "Acquire"
  IN IF out.reply # "ok"
     THEN Outcome(r, r.bt_fd, method, {}, {})
     ELSE LET got == g_unix_fd_list_get(out.fd_list, 0, open)
              fd == got.fd
          IN Outcome([r EXCEPT !.mtu_read = out.mtu_read,
                               !.mtu_write = out.mtu_write,
                               !.bt_fd = fd, !.bt_sock = got.sock],
                     fd, method,
                     IF fd = Closed THEN {} ELSE {fd}, {})

\* An A2DP acquire that returns the descriptor of the reply without
\* storing it in bt_fd.
transport_acquire_bt_a2dp_nostore(r, out, open) ==
  IF r.bt_fd # Closed
  THEN Outcome(r, r.bt_fd, "none", {}, {})
  ELSE LET method == IF r.state = "PENDING" THEN "TryAcquire" ELSE "Acquire"
       IN IF out.reply # "ok"
          THEN Outcome(r, r.bt_fd, method, {}, {})
          ELSE LET fd == g_unix_fd_list_get(out.fd_list, 0, open).fd
               IN Outcome([r EXCEPT !.mtu_read = out.mtu_read,
                                    !.mtu_write = out.mtu_write],
                          fd, method,
                          IF fd = Closed THEN {} ELSE {fd}, {})

transport_acquire_bt_a2dp(r, out, open) ==
  IF r.bt_fd # Closed
  THEN Outcome(r, r.bt_fd, "none", {}, {})
  ELSE LET method == IF r.state = "PENDING" THEN "TryAcquire" ELSE "Acquire"
       IN IF out.reply # "ok"
          THEN Outcome(r, r.bt_fd, method, {}, {})
          ELSE LET got == g_unix_fd_list_get(out.fd_list, 0, open)
                   fd == got.fd
               IN Outcome([r EXCEPT !.mtu_read = out.mtu_read,
                                    !.mtu_write = out.mtu_write,
                                    !.bt_fd = fd, !.bt_sock = got.sock],
                          fd, method,
                          IF fd = Closed THEN {} ELSE {fd}, {})

\* An A2DP release without the early return on bt_fd = -1.
transport_release_bt_a2dp_always(r, out) ==
  IF r.state # "IDLE" /\ r.owner
  THEN IF out \in {"ok", "benign"}
       THEN Outcome([r EXCEPT !.bt_fd = Closed, !.bt_sock = Closed], 0,
                    "Release", {}, {r.bt_fd} \ {Closed})
       ELSE Outcome(r, -1, "Release", {}, {})
  ELSE Outcome([r EXCEPT !.bt_fd = Closed, !.bt_sock = Closed], 0, "none", {},
               {r.bt_fd} \ {Closed})

\* An A2DP release that asks the daemon whenever the state is not IDLE,
\* whether the transport has an owner or not.
transport_release_bt_a2dp_owner(r, out) ==
  IF r.bt_fd = Closed
  THEN Outcome(r, 0, "none", {}, {})
  ELSE IF r.state # "IDLE"
       THEN IF out \in {"ok", "benign"}
            THEN Outcome([r EXCEPT !.bt_fd = Closed, !.bt_sock = Closed], 0,
                         "Release", {}, {r.bt_fd})
            ELSE Outcome(r, -1, "Release", {}, {})
       ELSE Outcome([r EXCEPT !.bt_fd = Closed, !.bt_sock = Closed], 0, "none",
                    {}, {r.bt_fd})

transport_release_bt_a2dp(r, out) ==
  IF r.bt_fd = Closed
  THEN Outcome(r, 0, "none", {}, {})
  ELSE IF r.state # "IDLE" /\ r.owner
       THEN IF out \in {"ok", "benign"}
            THEN Outcome([r EXCEPT !.bt_fd = Closed, !.bt_sock = Closed], 0,
                         "Release", {}, {r.bt_fd})
            ELSE Outcome(r, -1, "Release", {}, {})
       ELSE Outcome([r EXCEPT !.bt_fd = Closed, !.bt_sock = Closed], 0, "none",
                    {}, {r.bt_fd})

\* An SCO acquire that returns -1 on a failed connect without closing the
\* socket it opened.
transport_acquire_bt_sco_leak(r, out, open) ==
  IF r.bt_fd # Closed
  THEN Outcome(r, r.bt_fd, "none", {}, {})
  ELSE LET fd == IF out.open_ok THEN NewFd(open) ELSE Closed
       IN IF fd = Closed
          THEN Outcome(r, -1, "none", {}, {})
          ELSE IF ~out.connect_ok
               THEN Outcome(r, -1, "none", {fd}, {})
               ELSE Outcome([r EXCEPT !.mtu_read = out.mtu,
                                      !.mtu_write = out.mtu,
                                      !.bt_fd = fd],
                            fd, "none", {fd}, {})

transport_acquire_bt_sco(r, out, open) ==
  IF r.bt_fd # Closed
  THEN Outcome(r, r.bt_fd, "none", {}, {})
  ELSE LET fd == IF out.open_ok THEN NewFd(open) ELSE Closed
       IN IF fd = Closed
          THEN Outcome(r, -1, "none", {}, {})
          ELSE IF ~out.connect_ok
               THEN Outcome(r, -1, "none", {fd}, {fd})
               ELSE Outcome([r EXCEPT !.mtu_read = out.mtu,
                                      !.mtu_write = out.mtu,
                                      !.bt_fd = fd],
                            fd, "none", {fd}, {})

\* An SCO release that closes the socket but keeps the stale descriptor in
\* bt_fd.
transport_release_bt_sco_stale(r) ==
  IF r.bt_fd = Closed
  THEN Outcome(r, 0, "none", {}, {})
  ELSE Outcome(r, 0, "none", {}, {r.bt_fd})

transport_release_bt_sco(r) ==
  IF r.bt_fd = Closed
  THEN Outcome(r, 0, "none", {}, {})
  ELSE Outcome([r EXCEPT !.bt_fd = Closed], 0, "none", {}, {r.bt_fd})

\* t->acquire(t) and t->release(t): the strategy installed at creation.
AcquireReplies(r) ==
  IF IsA2DP(r.profile) THEN AcquireRepliesA2DP ELSE AcquireRepliesSCO

ba_transport_acquire(r, out, open) ==
  IF IsA2DP(r.profile)
  THEN transport_acquire_bt_a2dp(r, out, open)
  ELSE transport_acquire_bt_sco(r, out, open)

ba_transport_release(r, out) ==
  IF IsA2DP(r.profile)
  THEN transport_release_bt_a2dp(r, out)
  ELSE transport_release_bt_sco(r)

\* ba_transport_pcm_release on both PCM endpoints of r.
PcmFds(r) == {r.pcm[i].fd : i \in PcmIdx} \ {Closed}

ba_transport_pcm_release(pcm) == [pcm EXCEPT !.fd = Closed]

PcmsReleased(r) ==
  [r EXCEPT !.pcm = [i \in PcmIdx |-> ba_transport_pcm_release(r.pcm[i])]]

(***************************************************************************)
(* The device's transports table and the reference count.                  *)
(***************************************************************************)
\* g_hash_table_insert: the entry of the key is set, replacing any entry
\* the key already has.
g_hash_table_insert(table, key, t) == [table EXCEPT ![key] = t]

\* g_hash_table_steal: the entry of the key is removed, whatever it holds.
g_hash_table_steal(table, key) ==
  IF key \in DOMAIN table THEN [table EXCEPT ![key] = NULL] ELSE table

\* g_hash_table_lookup.
g_hash_table_lookup(table, key) == table[key]

\* The transport memory handed out by calloc: the lowest id never used.
Unused == {t \in TIds : tr[t].mem = "none"}
NewTransport == CHOOSE t \in Unused : \A u \in Unused : t <= u

\* Whether a caller may pass t to an operation: it holds a reference to it,
\* or it is the main thread, which keeps the pointer it created until it
\* destroys the transport.
CanUse(c, t) ==
  /\ pc[c] = Idle
  /\ tr[t].mem = "alloc"
  /\ held[c][t] > 0 \/ (c = MainThread /\ cref[t])

\* transport_new followed by the rest of ba_transport_new_a2dp or
\* ba_transport_new_sco, as a function of the arguments.
transport_new(path) ==
  [NoTransport("alloc") EXCEPT !.ref_count = 1, !.owner = TRUE, !.path = path,
                               !.thread_enc = ThreadPiped,
                               !.thread_dec = ThreadPiped]

\* The configuration blobs of an A2DP codec: capabilities_size bytes.
Blobs == [1..CapabilitiesSize -> 0..1]

\* The configuration the A2DP transports of the model are created with.
Configuration == [i \in 1..CapabilitiesSize |-> 1]

ba_transport_new_a2dp(path, profile, codec) ==
  [transport_new(path) EXCEPT
     !.profile = profile, !.codec = codec,
     !.configuration = Configuration,
     !.pcm = [i \in PcmIdx |->
                [PcmInit EXCEPT !.soft_volume = ~A2dpNativeVolume,
                                !.max_bt_volume = MaxBtVolumeA2DP]],
     !.state = "IDLE", !.registered = TRUE]

ba_transport_new_sco(path, profile, codec, esco, has_rfcomm) ==
  [transport_new(path) EXCEPT
     !.profile = profile,
     !.codec = IF profile \in ProfilesHSP \/ ~esco THEN "CVSD" ELSE codec,
     !.pcm = [i \in PcmIdx |->
                [PcmInit EXCEPT !.max_bt_volume = MaxBtVolumeSCO]],
     !.rfcomm = has_rfcomm, !.registered = TRUE]

\* A ba_transport_unref that leaves the table alone when the count reaches
\* zero.
unref_keeps_entry(r, table) ==
  [t |-> [r EXCEPT !.ref_count = r.ref_count - 1], table |-> table]

\* A ba_transport_unref that removes the entry at every decrement, not only
\* at zero.
unref_detaches(r, table) ==
  [t |-> [r EXCEPT !.ref_count = r.ref_count - 1],
   table |-> g_hash_table_steal(table, r.path)]

\* The critical section of ba_transport_unref: the decrement and, at zero,
\* the removal from the table.  Yields the transport and the table.
unref_locked(r, table) ==
  [t |-> [r EXCEPT !.ref_count = r.ref_count - 1],
   table |-> IF r.ref_count - 1 = 0
             THEN g_hash_table_steal(table, r.path) ELSE table]

\* The rest of ba_transport_unref at zero: the descriptors closed when the
\* transport is freed.
FreedFds(r) ==
  (IF r.bt_fd # Closed THEN {r.bt_fd} ELSE {})
  \cup (IF r.profile # "NONE" THEN PcmFds(r) ELSE {})

\* Transports are created, driven through the A2DP states and destroyed by
\* the handlers of the Bluetooth daemon's notifications, which run on the
\* main thread.
CreateA2DP(c, p, profile) ==
  /\ c = MainThread
  /\ pc[c] = Idle
  /\ Unused # {}
  /\ profile \in ProfilesA2DP
  /\ LET t == NewTransport IN
     /\ tr' = [tr EXCEPT ![t] = ba_transport_new_a2dp(p, profile, "SBC")]
     /\ transports' = g_hash_table_insert(transports, p, t)
     /\ cref' = [cref EXCEPT ![t] = TRUE]
  /\ last' = NoCall
  /\ UNCHANGED <<open_fds, worker, pc, arg, held, link, blocked>>

CreateSCO(c, p, profile) ==
  /\ c = MainThread
  /\ pc[c] = Idle
  /\ Unused # {}
  /\ profile \in ProfilesSCO
  /\ \E codec \in {"MSBC"}, esco \in BOOLEAN, has_rfcomm \in {TRUE} :
       LET t == NewTransport IN
       /\ tr' = [tr EXCEPT ![t] =
                   ba_transport_new_sco(p, profile, codec, esco, has_rfcomm)]
       /\ transports' = g_hash_table_insert(transports, p, t)
       /\ cref' = [cref EXCEPT ![t] = TRUE]
  /\ last' = NoCall
  /\ UNCHANGED <<open_fds, worker, pc, arg, held, link, blocked>>

\* A SCO transport of an external telephony back-end: no RFCOMM descriptor
\* is passed, so no RFCOMM session is attached.
CreateSCOExternal(c, p, profile) ==
  /\ c = MainThread
  /\ pc[c] = Idle
  /\ Unused # {}
  /\ profile \in ProfilesSCO
  /\ \E codec \in {"MSBC"}, esco \in BOOLEAN :
       LET t == NewTransport IN
       /\ tr' = [tr EXCEPT ![t] =
                   ba_transport_new_sco(p, profile, codec, esco, FALSE)]
       /\ transports' = g_hash_table_insert(transports, p, t)
       /\ cref' = [cref EXCEPT ![t] = TRUE]
  /\ last' = NoCall
  /\ UNCHANGED <<open_fds, worker, pc, arg, held, link, blocked>>

\* ba_transport_lookup
Lookup(c, p) ==
  /\ pc[c] = Idle
  /\ LET t == g_hash_table_lookup(transports, p) IN
     /\ t # NULL => held[c][t] < MaxHeld
     /\ tr' = IF t # NULL
              THEN [tr EXCEPT ![t].ref_count = @ + 1] ELSE tr
     /\ held' = IF t # NULL
                THEN [held EXCEPT ![c][t] = @ + 1] ELSE held
  /\ last' = NoCall
  /\ UNCHANGED <<transports, open_fds, worker, pc, arg, cref, link, blocked>>

\* ba_transport_ref (also through ba_transport_pcm_ref)
Ref(c, t) ==
  /\ CanUse(c, t)
  /\ held[c][t] < MaxHeld
  /\ tr' = [tr EXCEPT ![t].ref_count = @ + 1]
  /\ held' = [held EXCEPT ![c][t] = @ + 1]
  /\ last' = NoCall
  /\ UNCHANGED <<transports, open_fds, worker, pc, arg, cref, link, blocked>>

\* ba_transport_unref, up to the release of the table lock.
Unref(c, t) ==
  /\ CanUse(c, t)
  /\ held[c][t] > 0
  /\ LET u == unref_locked(tr[t], transports) IN
     /\ tr' = [tr EXCEPT ![t] = u.t]
     /\ transports' = u.table
     /\ held' = [held EXCEPT ![c][t] = @ - 1]
     /\ IF u.t.ref_count > 0
        THEN /\ pc' = pc /\ arg' = arg
        ELSE /\ pc' = [pc EXCEPT ![c] = <<"unref", "free">>]
             /\ arg' = [arg EXCEPT ![c] = t]
  /\ last' = NoCall
  /\ UNCHANGED <<open_fds, worker, cref, link, blocked>>

\* One thing done while a transport is freed: op is "lock", "unlock",
\* "close" or "unref", obj what it is done to.
Event(op, obj) == [op |-> op, obj |-> obj]

\* The name of the mutex or of the descriptor of PCM endpoint i.
PcmName(i) == IF i = 1 THEN "pcm1" ELSE "pcm2"

\* A transport_pcm_free that closes the descriptor before it takes the
\* mutex of the endpoint.
transport_pcm_free_early(pcm, i) ==
  (IF pcm.fd # Closed THEN <<Event("close", PcmName(i))>> ELSE <<>>)
  \o <<Event("lock", PcmName(i)), Event("unlock", PcmName(i))>>

\* transport_pcm_free: ba_transport_pcm_release between the lock and the
\* unlock of the mutex of the endpoint.
transport_pcm_free(pcm, i) ==
  <<Event("lock", PcmName(i))>>
  \o (IF pcm.fd # Closed THEN <<Event("close", PcmName(i))>> ELSE <<>>)
  \o <<Event("unlock", PcmName(i))>>

\* The name of end k (0: read, 1: write) of the pipe of slot s.
PipeName(s, k) ==
  IF s = "thread_enc"
  THEN IF k = 0 THEN "thread_enc.pipe[0]" ELSE "thread_enc.pipe[1]"
  ELSE IF k = 0 THEN "thread_dec.pipe[0]" ELSE "thread_dec.pipe[1]"

\* A transport_thread_free that closes the read end only.
transport_thread_free_read(th, s) ==
  IF th.pipe_open[1] THEN <<Event("close", PipeName(s, 0))>> ELSE <<>>

\* transport_thread_free: both ends of the pipe are closed, if they are
\* descriptors.
transport_thread_free(th, s) ==
  (IF th.pipe_open[1] THEN <<Event("close", PipeName(s, 0))>> ELSE <<>>)
  \o (IF th.pipe_open[2] THEN <<Event("close", PipeName(s, 1))>> ELSE <<>>)

\* ba_transport_unref from the release of the table lock on, when the count
\* has reached zero: what is done, in order, and the numbers of the
\* descriptors that are closed.
ba_transport_free(r) ==
  [events |->
     <<Event("unlock", "table")>>
     \o (IF r.bt_fd # Closed THEN <<Event("close", "bt_fd")>> ELSE <<>>)
     \o <<Event("unref", "device")>>
     \o (IF r.profile # "NONE"
         THEN transport_pcm_free(r.pcm[1], 1) \o transport_pcm_free(r.pcm[2], 2)
         ELSE <<>>)
     \o transport_thread_free(r.thread_enc, "thread_enc")
     \o transport_thread_free(r.thread_dec, "thread_dec"),
   closed |-> FreedFds(r)]

\* The record of a ba_transport_unref that freed transport t, made within
\* the operation op.
FreeCall(op, t) ==
  [Call(op, t, 0, "none", {}, FreedFds(tr[t]))
     EXCEPT !.input = ba_transport_free(tr[t])]

\* ba_transport_unref at zero: the transport is freed.  This ends the
\* ba_transport_destroy whose unref was the last one.  With rec, what the
\* free did is kept in the record of the call.
UnrefFreeAs(c, rec) ==
  /\ pc[c][2] = "free"
  /\ LET t == arg[c] IN
     /\ \A i \in PcmIdx : tr[t].pcm[i].mutex = NoOwner
     /\ open_fds' = open_fds \ ba_transport_free(tr[t]).closed
     /\ tr' = [tr EXCEPT ![t] = NoTransport("freed")]
     /\ link' = [link EXCEPT ![t] = "none"]
     /\ last' = IF rec THEN FreeCall(pc[c][1], t)
                ELSE IF pc[c][1] = "destroy"
                     THEN Call("destroy", t, 0, "none", {}, FreedFds(tr[t]))
                     ELSE NoCall
  /\ pc' = [pc EXCEPT ![c] = Idle]
  /\ arg' = [arg EXCEPT ![c] = NULL]
  /\ UNCHANGED <<transports, worker, held, cref, blocked>>

UnrefFree(c) == UnrefFreeAs(c, FALSE)

UnrefFreeRecorded(c) == UnrefFreeAs(c, TRUE)

(***************************************************************************)
(* Acquire, PCM clients, worker threads.                                   *)
(***************************************************************************)
Fds(open, o) == (open \cup o.opened) \ o.closed

\* ba_transport_acquire, answered by the daemon with the reply out; the
\* record of the call keeps the input it is given.
AcquireReply(c, t, out, input) ==
  /\ CanUse(c, t)
  /\ tr[t].registered
  /\ LET o == ba_transport_acquire(tr[t], out, open_fds) IN
       /\ tr' = [tr EXCEPT ![t] = o.t]
       /\ open_fds' = Fds(open_fds, o)
       /\ link' = [link EXCEPT ![t] = AfterAcquire(@, o.ret)]
       /\ last' = [Call("acquire", t, o.ret, o.rpc, o.opened, o.closed)
                     EXCEPT !.input = input]
  /\ UNCHANGED <<transports, worker, pc, arg, held, cref, blocked>>

\* ba_transport_acquire
Acquire(c, t) ==
  \E out \in AcquireReplies(tr[t]) : AcquireReply(c, t, out, "none")

\* ba_transport_acquire, the daemon's reply kept in the record of the call.
AcquireRecorded(c, t) ==
  \E out \in AcquireReplies(tr[t]) : AcquireReply(c, t, out, out)

\* A client of the PCM IPC opens a PCM endpoint: the descriptor is stored
\* under the endpoint's mutex.
PcmOpen(c, t, i) ==
  /\ CanUse(c, t)
  /\ tr[t].registered
  /\ tr[t].pcm[i].mutex = NoOwner
  /\ tr[t].pcm[i].fd = Closed
  /\ NewFd(open_fds) # Closed
  /\ tr' = [tr EXCEPT ![t].pcm[i].fd = NewFd(open_fds)]
  /\ open_fds' = open_fds \cup {NewFd(open_fds)}
  /\ last' = NoCall
  /\ UNCHANGED <<transports, worker, pc, arg, held, cref, link, blocked>>

\* A ba_transport_thread_create that starts the thread without taking a
\* reference for it.
ba_transport_thread_create_noref(r, w, t, s, ok) ==
  IF ok
  THEN [t |-> [r EXCEPT ![s].id = WorkerId(t, s)],
        w |-> [w EXCEPT ![s] = [st |-> "started", cancel |-> FALSE]],
        ret |-> 0]
  ELSE [t |-> [r EXCEPT ![s].id = MainThread], w |-> w, ret |-> -1]

\* A ba_transport_thread_create that keeps the reference it took for the
\* worker when the thread cannot be created.
ba_transport_thread_create_keepref(r, w, t, s, ok) ==
  IF ok
  THEN [t |-> [r EXCEPT !.ref_count = @ + 1, ![s].id = WorkerId(t, s)],
        w |-> [w EXCEPT ![s] = [st |-> "started", cancel |-> FALSE]],
        ret |-> 0]
  ELSE [t |-> [r EXCEPT !.ref_count = @ + 1, ![s].id = MainThread],
        w |-> w, ret |-> -1]

\* ba_transport_thread_create on slot s: r is the transport, w its workers,
\* ok whether pthread_create succeeds.  The reference taken for the worker
\* is dropped again when the thread cannot be created.
ba_transport_thread_create(r, w, t, s, ok) ==
  IF ok
  THEN [t |-> [r EXCEPT !.ref_count = @ + 1, ![s].id = WorkerId(t, s)],
        w |-> [w EXCEPT ![s] = [st |-> "started", cancel |-> FALSE]],
        ret |-> 0]
  ELSE [t |-> [r EXCEPT ![s].id = MainThread], w |-> w, ret |-> -1]

\* The slots the A2DP audio thread factory creates workers on: the encoder
\* for a source, the decoder for a sink, and the other one too for a codec
\* with a back channel.
A2dpSlots(profile, both) ==
  IF profile = "A2DP_SOURCE"
  THEN IF both THEN <<"thread_enc", "thread_dec">> ELSE <<"thread_enc">>
  ELSE IF both THEN <<"thread_dec", "thread_enc">> ELSE <<"thread_dec">>

\* a2dp_audio_thread_create: the workers are created in order; the first
\* failure ends it.  fail is the position of the pthread_create that fails
\* (0: none).
a2dp_audio_thread_create(r, w, t, both, fail) ==
  LET slots == A2dpSlots(r.profile, both)
      first == ba_transport_thread_create(r, w, t, slots[1], fail # 1)
  IN IF first.ret # 0 \/ Len(slots) = 1
     THEN first
     ELSE ba_transport_thread_create(first.t, first.w, t, slots[2], fail # 2)

\* A ba_transport_start that creates the workers whatever the slots hold.
ba_transport_start_nocheck(r, w, t, both, fail) ==
  IF IsA2DP(r.profile)
  THEN a2dp_audio_thread_create(r, w, t, both, fail)
  ELSE IF IsSCO(r.profile)
       THEN ba_transport_thread_create(r, w, t, "thread_enc", fail # 1)
       ELSE [t |-> r, w |-> w, ret |-> -1]

\* ba_transport_start
ba_transport_start(r, w, t, both, fail) ==
  IF r.thread_enc.id # MainThread \/ r.thread_dec.id # MainThread
  THEN [t |-> r, w |-> w, ret |-> 0]
  ELSE IF IsA2DP(r.profile)
       THEN a2dp_audio_thread_create(r, w, t, both, fail)
       ELSE IF IsSCO(r.profile)
            THEN ba_transport_thread_create(r, w, t, "thread_enc", fail # 1)
            ELSE [t |-> r, w |-> w, ret |-> -1]

\* The slots a start created a worker on: w are the workers before it, v
\* the workers after it.
Created(w, v) == {s \in Slots : v[s] # w[s]}

Start(c, t) ==
  /\ CanUse(c, t)
  /\ tr[t].registered
  /\ \E both \in BOOLEAN, fail \in 0..2 :
       LET o == ba_transport_start(tr[t], worker[t], t, both, fail) IN
       /\ tr' = [tr EXCEPT ![t] = o.t]
       /\ worker' = [worker EXCEPT ![t] = o.w]
       /\ last' = [Call("start", t, o.ret, "none", {}, {})
                     EXCEPT !.created = Created(worker[t], o.w)]
  /\ UNCHANGED <<transports, open_fds, pc, arg, held, cref, link, blocked>>

\* An assignment that refuses to go from IDLE to ACTIVE without PENDING.
a2dp_state_set_ordered(r, state) ==
  IF r.state = "IDLE" /\ state = "ACTIVE" THEN r ELSE [r EXCEPT !.state = state]

\* The assignment t->a2dp.state = state the switch is made on.
a2dp_state_set(r, state) == [r EXCEPT !.state = state]

\* ba_transport_set_a2dp_state: the state is assigned, then PENDING acquires
\* (A2DP sink only), ACTIVE starts and IDLE stops the workers.
SetA2dpState(c, t, state) ==
  /\ c = MainThread
  /\ CanUse(c, t)
  /\ IsA2DP(tr[t].profile)
  /\ LET r == a2dp_state_set(tr[t], state) IN
     CASE state = "PENDING" ->
            /\ \E out \in AcquireRepliesA2DP :
                 LET o == IF r.profile = "A2DP_SINK"
                          THEN ba_transport_acquire(r, out, open_fds)
                          ELSE Outcome(r, 0, "none", {}, {}) IN
                 /\ tr' = [tr EXCEPT ![t] = o.t]
                 /\ open_fds' = Fds(open_fds, o)
                 /\ link' = [link EXCEPT ![t] =
                               IF r.profile = "A2DP_SINK"
                               THEN AfterAcquire(@, o.ret) ELSE @]
                 /\ last' = [Call("set_a2dp_state", t, o.ret, o.rpc,
                                  o.opened, o.closed)
                               EXCEPT !.target = state]
            /\ UNCHANGED <<worker, pc, arg>>
       [] state = "ACTIVE" ->
            /\ \E both \in BOOLEAN, fail \in 0..2 :
                 LET o == ba_transport_start(r, worker[t], t, both, fail) IN
                 /\ tr' = [tr EXCEPT ![t] = o.t]
                 /\ worker' = [worker EXCEPT ![t] = o.w]
                 /\ last' = [Call("set_a2dp_state", t, o.ret, "none", {}, {})
                               EXCEPT !.created = Created(worker[t], o.w),
                                      !.target = state]
            /\ UNCHANGED <<open_fds, pc, arg, link>>
       [] OTHER ->
            /\ tr' = [tr EXCEPT ![t] = r]
            /\ pc' = [pc EXCEPT ![c] = <<"set_a2dp_state", "cancel_enc">>]
            /\ arg' = [arg EXCEPT ![c] = t]
            /\ last' = NoCall
            /\ UNCHANGED <<open_fds, worker, link>>
  /\ UNCHANGED <<transports, held, cref, blocked>>

\* ba_transport_stop: both slots are cancelled, the encoder first.
Stop(c, t) ==
  /\ CanUse(c, t)
  /\ pc' = [pc EXCEPT ![c] = <<"stop", "cancel_enc">>]
  /\ arg' = [arg EXCEPT ![c] = t]
  /\ last' = NoCall
  /\ UNCHANGED <<tr, transports, open_fds, worker, held, cref, link, blocked>>

(***************************************************************************)
(* transport_thread_cancel, in the two steps a caller takes: the cancel    *)
(* request and the join, which waits for the worker to terminate.          *)
(***************************************************************************)
SlotOf(step) ==
  IF step \in {"cancel_enc", "join_enc"} THEN "thread_enc" ELSE "thread_dec"

\* A destroy that goes from the cancellations straight to the release,
\* without taking the PCM endpoints lock.
AfterCancel_nolock(op, s) ==
  IF s = "thread_enc" THEN <<op, "cancel_dec">>
  ELSE IF op = "destroy" THEN <<"destroy", "release">>
  ELSE Idle

\* Where a caller continues after the cancellation of a slot.
AfterCancel(op, s) ==
  IF s = "thread_enc" THEN <<op, "cancel_dec">>
  ELSE IF op = "destroy" THEN <<"destroy", "lock1">>
  ELSE Idle

\* Whether transport_thread_cancel returns at once: nothing runs on the
\* slot, or the caller is the worker itself.
NothingToCancel(th, self) == th.id = MainThread \/ th.id = self

Finished(c, t, op, s) ==
  /\ pc' = [pc EXCEPT ![c] = AfterCancel(op, s)]
  /\ IF AfterCancel(op, s) = Idle
     THEN /\ arg' = [arg EXCEPT ![c] = NULL]
          /\ last' = [Call(op, t, 0, "none", {}, {})
                        EXCEPT !.target = IF op = "set_a2dp_state"
                                          THEN "IDLE" ELSE "none"]
     ELSE /\ arg' = arg /\ last' = NoCall

Cancel(c) ==
  /\ pc[c][2] \in {"cancel_enc", "cancel_dec"}
  /\ LET t == arg[c]
         s == SlotOf(pc[c][2]) IN
     IF NothingToCancel(tr[t][s], c)
     THEN /\ Finished(c, t, pc[c][1], s)
          /\ UNCHANGED worker
     ELSE /\ worker' = [worker EXCEPT ![t][s].cancel = TRUE]
          /\ pc' = [pc EXCEPT ![c] =
                      <<pc[c][1], IF s = "thread_enc" THEN "join_enc"
                                  ELSE "join_dec">>]
          /\ last' = NoCall
          /\ UNCHANGED arg
  /\ UNCHANGED <<tr, transports, open_fds, held, cref, link, blocked>>

\* A join that resets the id of the slot and leaves the running flag.
Joined_running(th) == [th EXCEPT !.id = MainThread]

\* The slot after the join: the sentinel id, not running.
Joined(th) == [th EXCEPT !.id = MainThread, !.running = FALSE]

Join(c) ==
  /\ pc[c][2] \in {"join_enc", "join_dec"}
  /\ LET t == arg[c]
         s == SlotOf(pc[c][2]) IN
     /\ worker[t][s].st = "exited"
     /\ worker' = [worker EXCEPT ![t][s] = WorkerInit]
     /\ tr' = [tr EXCEPT ![t][s] = Joined(@)]
     /\ Finished(c, t, pc[c][1], s)
  /\ UNCHANGED <<transports, open_fds, held, cref, link, blocked>>

(***************************************************************************)
(* A worker thread: it enters its event loop (ba_transport_thread_ready),  *)
(* and on cancellation runs its cleanup handlers: the PCM endpoints lock   *)
(* (ba_transport_thread_cleanup_lock), then ba_transport_thread_cleanup.   *)
(***************************************************************************)
WorkerStep(t, s, from, to) ==
  /\ worker[t][s].st = from
  /\ worker' = [worker EXCEPT ![t][s].st = to]

\* ba_transport_thread_ready
WorkerReady(t, s) ==
  /\ WorkerStep(t, s, "started", "loop")
  /\ tr' = [tr EXCEPT ![t][s].running = TRUE]
  /\ last' = NoCall
  /\ UNCHANGED <<transports, open_fds, pc, arg, held, cref, link, blocked>>

\* A lock operation that returns without taking the mutex.
pcm_mutex_lock_skip(r, i, self) == r

\* pthread_mutex_lock on the mutex of PCM endpoint i, by thread self.
pcm_mutex_lock(r, i, self) == [r EXCEPT !.pcm[i].mutex = self]

\* A ba_transport_pcms_unlock that leaves both mutexes locked.
ba_transport_pcms_unlock_none(r) == r

\* ba_transport_pcms_unlock: both mutexes are released.
ba_transport_pcms_unlock(r) ==
  [r EXCEPT !.pcm = [i \in PcmIdx |-> [r.pcm[i] EXCEPT !.mutex = NoOwner]]]

\* The worker leaves its event loop by itself (its PCM was closed, the
\* Bluetooth link went down): the routine returns, which runs the cleanup
\* handlers as a cancellation does.
WorkerReturn(t, s) ==
  /\ WorkerStep(t, s, "loop", "returned")
  /\ last' = NoCall
  /\ UNCHANGED <<tr, transports, open_fds, pc, arg, held, cref, link, blocked>>

\* ba_transport_thread_cleanup_lock, first and second mutex.  The handlers
\* run once the worker is cancelled in its loop or has returned.
WorkerCleanupLock1(t, s) ==
  /\ \/ worker[t][s].cancel /\ WorkerStep(t, s, "loop", "cl_lock2")
     \/ WorkerStep(t, s, "returned", "cl_lock2")
  /\ tr[t].pcm[1].mutex = NoOwner
  /\ tr' = [tr EXCEPT ![t] = pcm_mutex_lock(@, 1, WorkerId(t, s))]
  /\ last' = NoCall
  /\ UNCHANGED <<transports, open_fds, pc, arg, held, cref, link, blocked>>

WorkerCleanupLock2(t, s) ==
  /\ WorkerStep(t, s, "cl_lock2", "cl_release")
  /\ tr[t].pcm[2].mutex = NoOwner
  /\ tr' = [tr EXCEPT ![t] = pcm_mutex_lock(@, 2, WorkerId(t, s))]
  /\ last' = NoCall
  /\ UNCHANGED <<transports, open_fds, pc, arg, held, cref, link, blocked>>

\* ba_transport_thread_cleanup: the release strategy, ...
WorkerCleanupRelease(t, s) ==
  /\ WorkerStep(t, s, "cl_release", "cl_unlock")
  /\ \E out \in ReleaseReplies :
       LET o == ba_transport_release(tr[t], out) IN
       /\ tr' = [tr EXCEPT ![t] = o.t]
       /\ open_fds' = Fds(open_fds, o)
       /\ link' = [link EXCEPT ![t] = AfterRelease(o.ret)]
       /\ last' = Call("release", t, o.ret, o.rpc, o.opened, o.closed)
  /\ UNCHANGED <<transports, pc, arg, held, cref, blocked>>

\* ... the unlock, ...
WorkerCleanupUnlock(t, s) ==
  /\ WorkerStep(t, s, "cl_unlock", "cl_unref")
  /\ tr' = [tr EXCEPT ![t] = ba_transport_pcms_unlock(@)]
  /\ last' = NoCall
  /\ UNCHANGED <<transports, open_fds, pc, arg, held, cref, link, blocked>>

\* ... and the unref of the reference taken by ba_transport_thread_create,
\* which frees the transport if it is the last one.
\* With rec, what a free did is kept in the record of the call.
WorkerCleanupUnrefAs(t, s, rec) ==
  /\ WorkerStep(t, s, "cl_unref", "exited")
  /\ LET u == unref_locked(tr[t], transports) IN
     /\ transports' = u.table
     /\ IF u.t.ref_count > 0
        THEN /\ tr' = [tr EXCEPT ![t] = u.t]
             /\ last' = NoCall
             /\ UNCHANGED <<open_fds, link>>
        ELSE /\ tr' = [tr EXCEPT ![t] = NoTransport("freed")]
             /\ open_fds' = open_fds \ ba_transport_free(tr[t]).closed
             /\ link' = [link EXCEPT ![t] = "none"]
             /\ last' = IF rec THEN FreeCall("cleanup", t) ELSE NoCall
  /\ UNCHANGED <<pc, arg, held, cref, blocked>>

WorkerCleanupUnref(t, s) == WorkerCleanupUnrefAs(t, s, FALSE)

WorkerCleanupUnrefRecorded(t, s) == WorkerCleanupUnrefAs(t, s, TRUE)

(***************************************************************************)
(* ba_transport_destroy, step by step.                                     *)
(***************************************************************************)
\* The PCMs are removed from the PCM IPC and the RFCOMM session is torn down.
Unregistered(r) ==
  IF IsA2DP(r.profile) THEN [r EXCEPT !.registered = FALSE]
  ELSE IF IsSCO(r.profile)
       THEN [r EXCEPT !.registered = FALSE, !.rfcomm = FALSE]
       ELSE r

DestroyBegin(c, t) ==
  /\ c = MainThread
  /\ pc[c] = Idle
  /\ tr[t].mem = "alloc"
  /\ cref[t]
  /\ cref' = [cref EXCEPT ![t] = FALSE]
  /\ blocked' = [blocked EXCEPT ![t] = \A s \in Slots : worker[t][s].st = "loop"]
  /\ tr' = [tr EXCEPT ![t] = Unregistered(@)]
  /\ pc' = [pc EXCEPT ![c] = <<"destroy", "cancel_enc">>]
  /\ arg' = [arg EXCEPT ![c] = t]
  /\ last' = NoCall
  /\ UNCHANGED <<transports, open_fds, worker, held, link>>

\* ba_transport_pcms_lock, first and second mutex.
DestroyLock(c, i) ==
  /\ pc[c] = <<"destroy", IF i = 1 THEN "lock1" ELSE "lock2">>
  /\ tr[arg[c]].pcm[i].mutex = NoOwner
  /\ tr' = [tr EXCEPT ![arg[c]] = pcm_mutex_lock(@, i, c)]
  /\ pc' = [pc EXCEPT ![c] = <<"destroy", IF i = 1 THEN "lock2" ELSE "release">>]
  /\ last' = NoCall
  /\ UNCHANGED <<transports, open_fds, worker, arg, held, cref, link, blocked>>

\* The PCM connections are terminated and the transport is released.
DestroyRelease(c) ==
  /\ pc[c] = <<"destroy", "release">>
  /\ LET t == arg[c] IN
     \E out \in ReleaseReplies :
       LET o == ba_transport_release(PcmsReleased(tr[t]), out) IN
       /\ tr' = [tr EXCEPT ![t] = o.t]
       /\ open_fds' = Fds(open_fds \ PcmFds(tr[t]), o)
       /\ link' = [link EXCEPT ![t] = AfterRelease(o.ret)]
       /\ last' = Call("release", t, o.ret, o.rpc, o.opened, o.closed)
  /\ pc' = [pc EXCEPT ![c] = <<"destroy", "unlock">>]
  /\ UNCHANGED <<transports, worker, arg, held, cref, blocked>>

DestroyUnlock(c) ==
  /\ pc[c] = <<"destroy", "unlock">>
  /\ tr' = [tr EXCEPT ![arg[c]] = ba_transport_pcms_unlock(@)]
  /\ pc' = [pc EXCEPT ![c] = <<"destroy", "unref">>]
  /\ last' = NoCall
  /\ UNCHANGED <<transports, open_fds, worker, arg, held, cref, link, blocked>>

\* The unref that ends ba_transport_destroy.
DestroyUnref(c) ==
  /\ pc[c] = <<"destroy", "unref">>
  /\ LET t == arg[c]
         u == unref_locked(tr[t], transports) IN
     /\ tr' = [tr EXCEPT ![t] = u.t]
     /\ transports' = u.table
     /\ IF u.t.ref_count > 0
        THEN /\ pc' = [pc EXCEPT ![c] = Idle]
             /\ arg' = [arg EXCEPT ![c] = NULL]
             /\ last' = Call("destroy", t, 0, "none", {}, {})
        ELSE /\ pc' = [pc EXCEPT ![c] = <<"destroy", "free">>]
             /\ arg' = arg
             /\ last' = NoCall
  /\ UNCHANGED <<open_fds, worker, held, cref, link, blocked>>

(***************************************************************************)
(* ba_transport_select_codec_sco, step by step.  The codec is negotiated   *)
(* by the RFCOMM worker thread of the transport, which is asked to by a    *)
(* signal and answers on the codec_selection_completed condition.          *)
(***************************************************************************)
\* The build has mSBC support (ENABLE_MSBC), without which the HFP case of
\* ba_transport_select_codec_sco is compiled out.
ENABLE_MSBC == TRUE

\* The codec ids a selection is requested with: the two HFP codecs and
\* HFP_CODEC_UNDEFINED.
HfpCodecs == {"CVSD", "MSBC"}
CodecIds == HfpCodecs \cup {"UNDEFINED"}

\* A test that lets every SCO profile with an RFCOMM session through.
SelectsCodec_sco(r) == ENABLE_MSBC /\ IsSCO(r.profile) /\ r.rfcomm

\* Whether the switch on the profile reaches the HFP case with an RFCOMM
\* session.
SelectsCodec(r) == ENABLE_MSBC /\ r.profile \in ProfilesHFP /\ r.rfcomm

\* The call up to the PCM endpoints lock: "unsupported" unless the profile
\* is HFP with an RFCOMM session; under the type lock, nothing to do if the
\* codec is the one in use.
SelectCodecSco(c, t, codec_id) ==
  /\ CanUse(c, t)
  /\ IF ~SelectsCodec(tr[t])
     THEN /\ last' = [Call("select_codec_sco", t, -1, "none", {}, {})
                        EXCEPT !.errno = "ENOTSUP", !.input = codec_id]
          /\ UNCHANGED <<tr, pc, arg>>
     ELSE /\ tr[t].type_mtx = NoOwner
          /\ IF tr[t].codec = codec_id
             THEN /\ last' = [Call("select_codec_sco", t, 0, "none", {}, {})
                                EXCEPT !.input = codec_id]
                  /\ UNCHANGED <<tr, pc, arg>>
             ELSE /\ tr' = [tr EXCEPT ![t].type_mtx = c]
                  /\ pc' = [pc EXCEPT ![c] = <<"select_codec", "completed", codec_id>>]
                  /\ arg' = [arg EXCEPT ![c] = t]
                  /\ last' = NoCall
  /\ UNCHANGED <<transports, open_fds, worker, held, cref, link, blocked>>

\* A lock of codec_selection_completed_mtx that returns without taking it.
completed_mutex_lock_skip(r, self) == r

\* pthread_mutex_lock(&r->codec_selection_completed_mtx) by thread self.
completed_mutex_lock(r, self) ==
  [r EXCEPT !.codec_selection_completed_mtx = self]

\* pthread_mutex_unlock(&r->codec_selection_completed_mtx) by thread self.
completed_mutex_unlock(r, self) ==
  [r EXCEPT !.codec_selection_completed_mtx = IF @ = self THEN NoOwner ELSE @]

\* The mutex of the completion condition is taken, under the type lock.
SelectCodecLockCompleted(c) ==
  /\ pc[c][1] = "select_codec" /\ pc[c][2] = "completed"
  /\ tr[arg[c]].codec_selection_completed_mtx = NoOwner
  /\ tr' = [tr EXCEPT ![arg[c]] = completed_mutex_lock(@, c)]
  /\ pc' = [pc EXCEPT ![c][2] = "lock1"]
  /\ last' = NoCall
  /\ UNCHANGED <<transports, open_fds, worker, arg, held, cref, link, blocked>>

\* ba_transport_pcms_lock, first and second mutex.
SelectCodecLock(c, i) ==
  /\ pc[c][1] = "select_codec"
  /\ pc[c][2] = (IF i = 1 THEN "lock1" ELSE "lock2")
  /\ tr[arg[c]].pcm[i].mutex = NoOwner
  /\ tr' = [tr EXCEPT ![arg[c]] = pcm_mutex_lock(@, i, c)]
  /\ pc' = [pc EXCEPT ![c][2] = IF i = 1 THEN "lock2" ELSE "release"]
  /\ last' = NoCall
  /\ UNCHANGED <<transports, open_fds, worker, arg, held, cref, link, blocked>>

\* The ongoing connection is released: both PCMs and the transport.
SelectCodecRelease(c) ==
  /\ pc[c][1] = "select_codec" /\ pc[c][2] = "release"
  /\ LET t == arg[c]
         o == ba_transport_release(PcmsReleased(tr[t]), "none") IN
     /\ tr' = [tr EXCEPT ![t] = o.t]
     /\ open_fds' = Fds(open_fds \ PcmFds(tr[t]), o)
     /\ link' = [link EXCEPT ![t] = AfterRelease(o.ret)]
     /\ last' = Call("release", t, o.ret, o.rpc, o.opened, o.closed)
  /\ pc' = [pc EXCEPT ![c][2] = "unlock"]
  /\ UNCHANGED <<transports, worker, arg, held, cref, blocked>>

SelectCodecUnlock(c) ==
  /\ pc[c][1] = "select_codec" /\ pc[c][2] = "unlock"
  /\ tr' = [tr EXCEPT ![arg[c]] = ba_transport_pcms_unlock(@)]
  /\ pc' = [pc EXCEPT ![c][2] = "signal"]
  /\ last' = NoCall
  /\ UNCHANGED <<transports, open_fds, worker, arg, held, cref, link, blocked>>

\* The signal ba_rfcomm_send_signal is called with for a codec id.
SetCodecSignal(codec_id) ==
  IF codec_id = "CVSD" THEN "HFP_SET_CODEC_CVSD" ELSE "HFP_SET_CODEC_MSBC"

\* The codec a set-codec signal asks the RFCOMM worker for.
SignalCodec(sig) == IF sig = "HFP_SET_CODEC_CVSD" THEN "CVSD" ELSE "MSBC"

\* The switch on the codec id: for an HFP codec the RFCOMM worker is
\* signalled and its completion waited for; for any other id neither.
SelectCodecSignal(c) ==
  /\ pc[c][1] = "select_codec" /\ pc[c][2] = "signal"
  /\ IF pc[c][3] \in HfpCodecs
     THEN /\ tr' = [tr EXCEPT ![arg[c]].rfcomm_signal = SetCodecSignal(pc[c][3])]
          /\ pc' = [pc EXCEPT ![c][2] = "cond_wait"]
     ELSE /\ tr' = tr
          /\ pc' = [pc EXCEPT ![c][2] = "check"]
  /\ last' = NoCall
  /\ UNCHANGED <<transports, open_fds, worker, arg, held, cref, link, blocked>>

\* pthread_cond_wait begins: the mutex is released and the caller waits,
\* in one step.
SelectCodecWait(c) ==
  /\ pc[c][1] = "select_codec" /\ pc[c][2] = "cond_wait"
  /\ tr' = [tr EXCEPT ![arg[c]] = completed_mutex_unlock(@, c)]
  /\ pc' = [pc EXCEPT ![c][2] = "wait"]
  /\ last' = NoCall
  /\ UNCHANGED <<transports, open_fds, worker, arg, held, cref, link, blocked>>

\* The wait may end without a signal (a spurious wakeup).
SelectCodecSpurious(c) ==
  /\ pc[c][1] = "select_codec" /\ pc[c][2] = "wait"
  /\ pc' = [pc EXCEPT ![c][2] = "woken"]
  /\ last' = NoCall
  /\ UNCHANGED <<tr, transports, open_fds, worker, arg, held, cref, link, blocked>>

\* The callers waiting on the completion condition of t.
CompletionWaiters(t) ==
  {c \in Callers : arg[c] = t /\ pc[c][1] = "select_codec" /\ pc[c][2] = "wait"}

\* ba_transport_set_codec: the codec of the type is assigned; the function
\* takes no lock.
ba_transport_set_codec(r, codec_id) == [r EXCEPT !.codec = codec_id]

\* The thread of the RFCOMM session of transport t: none of the callers and
\* none of the IO workers.
RfcommWorkerId(t) == 10 * t + 3

\* The record of a ba_transport_set_codec call made after creation: the
\* thread that made it and the codec id it wrote.
SetCodecCall(t, thread, codec_id) ==
  [NoCall EXCEPT !.op = "set_codec", !.t = t,
                 !.input = [thread |-> thread, codec_id |-> codec_id]]

\* The RFCOMM worker handles a set-codec signal: it negotiates the codec
\* with the peer, sets the codec of the transport with
\* ba_transport_set_codec if the peer agreed, and signals
\* codec_selection_completed under its mutex, which wakes the callers that
\* wait; a signal nobody waits for is lost.
RfcommCompleted(t) ==
  /\ tr[t].mem = "alloc"
  /\ tr[t].rfcomm
  /\ tr[t].rfcomm_signal \in {"HFP_SET_CODEC_CVSD", "HFP_SET_CODEC_MSBC"}
  /\ tr[t].codec_selection_completed_mtx = NoOwner
  /\ \E agreed \in BOOLEAN :
       LET codec_id == SignalCodec(tr[t].rfcomm_signal)
           r == [tr[t] EXCEPT !.rfcomm_signal = "none"]
       IN  /\ tr' = [tr EXCEPT ![t] = IF agreed
                                      THEN ba_transport_set_codec(r, codec_id)
                                      ELSE r]
           /\ last' = IF agreed
                      THEN SetCodecCall(t, RfcommWorkerId(t), codec_id)
                      ELSE NoCall
  /\ pc' = [c \in Callers |->
             IF c \in CompletionWaiters(t)
             THEN <<"select_codec", "woken", pc[c][3]>> ELSE pc[c]]
  /\ UNCHANGED <<transports, open_fds, worker, arg, held, cref, link, blocked>>

\* pthread_cond_wait returns: the mutex is taken again.
SelectCodecWoken(c) ==
  /\ pc[c][1] = "select_codec" /\ pc[c][2] = "woken"
  /\ tr[arg[c]].codec_selection_completed_mtx = NoOwner
  /\ tr' = [tr EXCEPT ![arg[c]] = completed_mutex_lock(@, c)]
  /\ pc' = [pc EXCEPT ![c][2] = "check"]
  /\ last' = NoCall
  /\ UNCHANGED <<transports, open_fds, worker, arg, held, cref, link, blocked>>

\* A check that takes the completion of the RFCOMM worker for a success.
codec_selected_always(r, codec_id) == [ret |-> 0, errno |-> "none"]

\* The check after the wait: success if the codec of the transport is the
\* requested one, an I/O error if not.
codec_selected(r, codec_id) ==
  IF r.codec # codec_id
  THEN [ret |-> -1, errno |-> "EIO"]
  ELSE [ret |-> 0, errno |-> "none"]

\* The mutex of the completion condition is released, the codec is checked
\* and the type lock released.
SelectCodecCheck(c) ==
  /\ pc[c][1] = "select_codec" /\ pc[c][2] = "check"
  /\ LET t == arg[c] IN
     /\ tr' = [tr EXCEPT ![t] = [completed_mutex_unlock(@, c)
                                   EXCEPT !.type_mtx = NoOwner]]
     /\ last' = [Call("select_codec_sco", t,
                       codec_selected(tr[t], pc[c][3]).ret, "none", {}, {})
                   EXCEPT !.errno = codec_selected(tr[t], pc[c][3]).errno,
                          !.input = pc[c][3]]
  /\ pc' = [pc EXCEPT ![c] = Idle]
  /\ arg' = [arg EXCEPT ![c] = NULL]
  /\ UNCHANGED <<transports, open_fds, worker, held, cref, link, blocked>>

(***************************************************************************)
(* ba_transport_select_codec_a2dp.                                         *)
(***************************************************************************)
\* The stream endpoints a codec is selected with: a codec id, and a
\* configuration of capabilities_size bytes.
Seps ==
  [codec_id : {"SBC", "AAC"}, configuration : Blobs,
   capabilities_size : {CapabilitiesSize}]

\* memcmp on the first n bytes: 0 if they are equal.
memcmp(a, b, n) == IF \A i \in 1..n : a[i] = b[i] THEN 0 ELSE 1

\* A selection that compares the codec ids only.
ba_transport_select_codec_a2dp_id(r, sep, self, rpc_ok) ==
  IF ~IsA2DP(r.profile)
  THEN [t |-> r, ret |-> -1, errno |-> "ENOTSUP", rpc |-> "none"]
  ELSE IF r.codec = sep.codec_id
       THEN [t |-> r, ret |-> 0, errno |-> "none", rpc |-> "none"]
       ELSE IF ~rpc_ok
            THEN [t |-> r, ret |-> -1, errno |-> "EIO", rpc |-> "SetConfiguration"]
            ELSE [t |-> r, ret |-> 0, errno |-> "none", rpc |-> "SetConfiguration"]

\* ba_transport_select_codec_a2dp on transport r by thread self; rpc_ok is
\* whether the SetConfiguration call on the stream endpoint succeeds.
ba_transport_select_codec_a2dp(r, sep, self, rpc_ok) ==
  IF ~IsA2DP(r.profile)
  THEN [t |-> r, ret |-> -1, errno |-> "ENOTSUP", rpc |-> "none"]
  ELSE LET locked == [r EXCEPT !.type_mtx = self]
           unlocked == [locked EXCEPT !.type_mtx = NoOwner] IN
       IF locked.codec = sep.codec_id
          /\ memcmp(sep.configuration, locked.configuration,
                    sep.capabilities_size) = 0
       THEN [t |-> unlocked, ret |-> 0, errno |-> "none", rpc |-> "none"]
       ELSE IF ~rpc_ok
            THEN [t |-> unlocked, ret |-> -1, errno |-> "EIO",
                  rpc |-> "SetConfiguration"]
            ELSE [t |-> unlocked, ret |-> 0, errno |-> "none",
                  rpc |-> "SetConfiguration"]

SelectCodecA2dp(c, t, sep) ==
  /\ CanUse(c, t)
  /\ IsA2DP(tr[t].profile) => tr[t].type_mtx = NoOwner
  /\ \E rpc_ok \in BOOLEAN :
       LET o == ba_transport_select_codec_a2dp(tr[t], sep, c, rpc_ok) IN
       /\ tr' = [tr EXCEPT ![t] = o.t]
       /\ last' = [Call("select_codec_a2dp", t, o.ret, o.rpc, {}, {})
                     EXCEPT !.errno = o.errno,
                            !.input = [sep |-> sep, rpc_ok |-> rpc_ok]]
  /\ UNCHANGED <<transports, open_fds, worker, pc, arg, held, cref, link, blocked>>

(***************************************************************************)
(* ba_transport_pcm_drain, step by step, and the worker's answer to the    *)
(* PCM_SYNC signal.                                                        *)
(***************************************************************************)
\* The thread that serves the commands of the PCM clients (drain among
\* them): the clients' requests are dispatched by one thread.
PcmController == 2

\* pcm->th: the worker slot a PCM endpoint belongs to.  A2DP: the primary
\* PCM belongs to the decoder of a sink and to the encoder of a source, the
\* back-channel PCM to the other one; SCO: both belong to the encoder.
PcmThread(r, i) ==
  IF IsA2DP(r.profile)
  THEN IF (r.profile = "A2DP_SINK") = (i = 1) THEN "thread_dec" ELSE "thread_enc"
  ELSE "thread_enc"

\* A check that finds a thread on every slot.
NoSuchThread_never(th) == FALSE

\* The check drain starts with: the slot holds the sentinel thread id.
NoSuchThread(th) == th.id = MainThread

\* The call up to the lock of the synced mutex: "no such thread" if the
\* slot of the PCM holds the sentinel.
Drain(c, t, i) ==
  /\ CanUse(c, t)
  /\ tr[t].profile # "NONE"
  /\ IF NoSuchThread(tr[t][PcmThread(tr[t], i)])
     THEN /\ last' = [Call("drain", t, -1, "none", {}, {})
                        EXCEPT !.errno = "ESRCH", !.input = i]
          /\ UNCHANGED <<pc, arg>>
     ELSE /\ pc' = [pc EXCEPT ![c] = <<"drain", "lock", i>>]
          /\ arg' = [arg EXCEPT ![c] = t]
          /\ last' = NoCall
  /\ UNCHANGED <<tr, transports, open_fds, worker, held, cref, link, blocked>>

\* pthread_mutex_lock(&pcm->synced_mtx)
DrainLock(c) ==
  /\ pc[c][1] = "drain" /\ pc[c][2] = "lock"
  /\ tr[arg[c]].pcm[pc[c][3]].synced_mtx = NoOwner
  /\ tr' = [tr EXCEPT ![arg[c]].pcm[pc[c][3]].synced_mtx = c]
  /\ pc' = [pc EXCEPT ![c][2] = "send"]
  /\ last' = NoCall
  /\ UNCHANGED <<transports, open_fds, worker, arg, held, cref, link, blocked>>

\* ba_transport_thread_send_signal: the signal is written to the pipe.
ba_transport_thread_send_signal(th, sig) == [th EXCEPT !.pipe = Append(@, sig)]

DrainSend(c) ==
  /\ pc[c][1] = "drain" /\ pc[c][2] = "send"
  /\ LET t == arg[c]
         s == PcmThread(tr[t], pc[c][3]) IN
     /\ Len(tr[t][s].pipe) < MaxPipe
     /\ tr' = [tr EXCEPT ![t][s] = ba_transport_thread_send_signal(@, "PCM_SYNC")]
  /\ pc' = [pc EXCEPT ![c][2] = "cond_wait"]
  /\ last' = NoCall
  /\ UNCHANGED <<transports, open_fds, worker, arg, held, cref, link, blocked>>

\* pthread_cond_wait begins: the mutex is released and the thread waits.
DrainWait(c) ==
  /\ pc[c][1] = "drain" /\ pc[c][2] = "cond_wait"
  /\ tr' = [tr EXCEPT ![arg[c]].pcm[pc[c][3]].synced_mtx = NoOwner]
  /\ pc' = [pc EXCEPT ![c][2] = "wait"]
  /\ last' = NoCall
  /\ UNCHANGED <<transports, open_fds, worker, arg, held, cref, link, blocked>>

\* pthread_cond_wait may return without the condition having been
\* signalled (a spurious wakeup); the call is not in a loop on a predicate,
\* so drain goes on as after a signal.
DrainSpurious(c) ==
  /\ pc[c][1] = "drain" /\ pc[c][2] = "wait"
  /\ pc' = [pc EXCEPT ![c][2] = "woken"]
  /\ last' = NoCall
  /\ UNCHANGED <<tr, transports, open_fds, worker, arg, held, cref, link, blocked>>

\* The PCM endpoints of r that belong to slot s.
PcmsOf(r, s) == {i \in PcmIdx : PcmThread(r, i) = s}

\* The threads waiting on the synced condition of PCM endpoint i of t.
SyncedWaiters(t, i) ==
  {c \in Callers : arg[c] = t /\ pc[c] = <<"drain", "wait", i>>}

\* The worker in its loop reads a signal from its pipe; for PCM_SYNC, once
\* its output queue is empty, it signals the synced condition of a PCM
\* endpoint of its slot, which wakes a thread waiting on it.
WorkerSynced(t, s) ==
  /\ worker[t][s].st = "loop"
  /\ tr[t][s].pipe # <<>>
  /\ tr' = [tr EXCEPT ![t][s].pipe = Tail(@)]
  /\ \E i \in PcmsOf(tr[t], s) :
       IF Head(tr[t][s].pipe) = "PCM_SYNC" /\ SyncedWaiters(t, i) # {}
       THEN \E c \in SyncedWaiters(t, i) :
              pc' = [pc EXCEPT ![c][2] = "woken"]
       ELSE pc' = pc
  /\ last' = NoCall
  /\ UNCHANGED <<transports, open_fds, worker, arg, held, cref, link, blocked>>

\* pthread_cond_wait returns: the mutex is taken again.
DrainWoken(c) ==
  /\ pc[c][1] = "drain" /\ pc[c][2] = "woken"
  /\ tr[arg[c]].pcm[pc[c][3]].synced_mtx = NoOwner
  /\ tr' = [tr EXCEPT ![arg[c]].pcm[pc[c][3]].synced_mtx = c]
  /\ pc' = [pc EXCEPT ![c][2] = "unlock"]
  /\ last' = NoCall
  /\ UNCHANGED <<transports, open_fds, worker, arg, held, cref, link, blocked>>

\* The mutex is released and, 200 ms later, drain returns 0.
DrainUnlock(c) ==
  /\ pc[c][1] = "drain" /\ pc[c][2] = "unlock"
  /\ tr' = [tr EXCEPT ![arg[c]].pcm[pc[c][3]].synced_mtx = NoOwner]
  /\ last' = [Call("drain", arg[c], 0, "none", {}, {}) EXCEPT !.input = pc[c][3]]
  /\ pc' = [pc EXCEPT ![c] = Idle]
  /\ arg' = [arg EXCEPT ![c] = NULL]
  /\ UNCHANGED <<transports, open_fds, worker, held, cref, link, blocked>>

\* The steps of a drain a caller is inside of.
DrainNext(c) ==
  \/ DrainLock(c)
  \/ DrainSend(c)
  \/ DrainWait(c)
  \/ DrainSpurious(c)
  \/ DrainWoken(c)
  \/ DrainUnlock(c)

\* What the threads of a worker slot can do.
WorkerNext(t, s) ==
  \/ WorkerReady(t, s)
  \/ WorkerCleanupLock1(t, s)
  \/ WorkerCleanupLock2(t, s)
  \/ WorkerCleanupRelease(t, s)
  \/ WorkerCleanupUnlock(t, s)
  \/ WorkerCleanupUnref(t, s)

\* The steps of the blocking operations a caller is inside of.
CallerNext(c) ==
  \/ UnrefFree(c)
  \/ Cancel(c)
  \/ Join(c)
  \/ \E i \in PcmIdx : DestroyLock(c, i)
  \/ DestroyRelease(c)
  \/ DestroyUnlock(c)
  \/ DestroyUnref(c)
  \/ \E i \in PcmIdx : SelectCodecLock(c, i)
  \/ SelectCodecRelease(c)
  \/ SelectCodecUnlock(c)
  \/ SelectCodecLockCompleted(c)
  \/ SelectCodecSignal(c)
  \/ SelectCodecWait(c)
  \/ SelectCodecSpurious(c)
  \/ SelectCodecWoken(c)
  \/ SelectCodecCheck(c)

\* The life of the first transport of the device, with every operation on
\* it, its worker threads and its clients.  A codec is selected on request
\* of a client, on a SCO transport.
Next ==
  \/ \E c \in Callers, p \in Paths, profile \in Profiles :
       /\ Unused = TIds
       /\ \/ CreateA2DP(c, p, profile)
          \/ CreateSCO(c, p, profile)
  \/ \E c \in Callers, p \in Paths : Lookup(c, p)
  \/ \E c \in Callers, t \in TIds :
       \/ Ref(c, t)
       \/ Unref(c, t)
       \/ Acquire(c, t)
       \/ Start(c, t)
       \/ DestroyBegin(c, t)
       \/ \E i \in PcmIdx : PcmOpen(c, t, i)
       \/ \E state \in A2dpStates : SetA2dpState(c, t, state)
       \/ \E codec_id \in CodecIds :
            /\ c # MainThread /\ IsSCO(tr[t].profile)
            /\ SelectCodecSco(c, t, codec_id)
  \/ \E c \in Callers : CallerNext(c)
  \/ \E t \in TIds : RfcommCompleted(t)
  \/ \E t \in TIds, s \in Slots : WorkerNext(t, s)

Spec == Init /\ [][Next]_vars

\* The same with the scheduling the threads get: a worker thread that can
\* take a step, and a caller inside a blocking operation that can go on,
\* eventually does.
FairSpec ==
  /\ Spec
  /\ \A t \in TIds, s \in Slots : WF_vars(WorkerNext(t, s))
  /\ \A c \in Callers : WF_vars(CallerNext(c))
  /\ \A t \in TIds : WF_vars(RfcommCompleted(t))

\* All the transports of the device, with the operations on the table and
\* the reference count: create, lookup, ref, unref and destroy.
NextTable ==
  \/ \E c \in Callers, p \in Paths, profile \in Profiles :
       \/ CreateA2DP(c, p, profile)
       \/ CreateSCO(c, p, profile)
  \/ \E c \in Callers, p \in Paths : Lookup(c, p)
  \/ \E c \in Callers, t \in TIds :
       \/ Ref(c, t)
       \/ Unref(c, t)
       \/ DestroyBegin(c, t)
  \/ \E c \in Callers :
       \/ UnrefFree(c)
       \/ Cancel(c)
       \/ \E i \in PcmIdx : DestroyLock(c, i)
       \/ DestroyRelease(c)
       \/ DestroyUnlock(c)
       \/ DestroyUnref(c)

SpecTable == Init /\ [][NextTable]_vars

\* The A2DP state machine of the first transport of the device: the main
\* thread creates it and drives it through the A2DP states, clients look
\* it up and acquire it, and its workers run, are cancelled by a stop or
\* return by themselves.
NextA2dp ==
  \/ \E p \in Paths, profile \in ProfilesA2DP :
       /\ Unused = TIds
       /\ CreateA2DP(MainThread, p, profile)
  \/ \E c \in Callers, p \in Paths : Lookup(c, p)
  \/ \E c \in Callers, t \in TIds :
       \/ Unref(c, t)
       \/ Acquire(c, t)
  \/ \E t \in TIds :
       \/ Start(MainThread, t)
       \/ Stop(MainThread, t)
       \/ \E state \in A2dpStates : SetA2dpState(MainThread, t, state)
  \/ \E c \in Callers :
       \/ Cancel(c)
       \/ Join(c)
  \/ \E t \in TIds, s \in Slots :
       \/ WorkerReturn(t, s)
       \/ WorkerNext(t, s)

SpecA2dp == Init /\ [][NextA2dp]_vars

\* The codec selection on the first transport of the device, of any
\* profile, with or without an RFCOMM session: the main thread creates the
\* transport, acquires it, opens its PCMs and selects codecs, and the
\* RFCOMM worker answers.
NextCodec ==
  \/ \E p \in Paths :
       /\ Unused = TIds
       /\ \/ \E profile \in ProfilesA2DP : CreateA2DP(MainThread, p, profile)
          \/ \E profile \in ProfilesSCO : CreateSCO(MainThread, p, profile)
          \/ \E profile \in ProfilesSCO : CreateSCOExternal(MainThread, p, profile)
  \/ \E t \in TIds :
       \/ Acquire(MainThread, t)
       \/ \E i \in PcmIdx : PcmOpen(MainThread, t, i)
       \/ \E codec_id \in CodecIds : SelectCodecSco(MainThread, t, codec_id)
       \/ \E sep \in Seps : SelectCodecA2dp(MainThread, t, sep)
  \/ \E i \in PcmIdx : SelectCodecLock(MainThread, i)
  \/ SelectCodecRelease(MainThread)
  \/ SelectCodecUnlock(MainThread)
  \/ SelectCodecLockCompleted(MainThread)
  \/ SelectCodecSignal(MainThread)
  \/ SelectCodecWait(MainThread)
  \/ SelectCodecSpurious(MainThread)
  \/ SelectCodecWoken(MainThread)
  \/ \E t \in TIds : RfcommCompleted(t)
  \/ SelectCodecCheck(MainThread)

SpecCodec == Init /\ [][NextCodec]_vars

\* The steps of a caller inside ba_transport_select_codec_sco, a return of
\* its wait without a signal left out.
SelectCodecSteps(c) ==
  \/ SelectCodecLockCompleted(c)
  \/ \E i \in PcmIdx : SelectCodecLock(c, i)
  \/ SelectCodecRelease(c)
  \/ SelectCodecUnlock(c)
  \/ SelectCodecSignal(c)
  \/ SelectCodecWait(c)
  \/ SelectCodecWoken(c)
  \/ SelectCodecCheck(c)

\* The same with the scheduling the threads get: a caller that can go on
\* does, and the RFCOMM worker answers every signal it is sent.  Nothing
\* makes a wait return without a signal.
FairSpecCodec ==
  /\ SpecCodec
  /\ WF_vars(SelectCodecSteps(MainThread))
  /\ \A t \in TIds : WF_vars(RfcommCompleted(t))

\* The drain of the PCM endpoints of the first transport of the device: the
\* main thread creates the transport, starts and stops its workers, the
\* thread that serves the PCM clients looks it up and drains its PCMs, and
\* the workers answer.
NextDrain ==
  \/ \E p \in Paths, profile \in Profiles :
       /\ Unused = TIds
       /\ \/ CreateA2DP(MainThread, p, profile)
          \/ CreateSCO(MainThread, p, profile)
  \/ \E p \in Paths : Lookup(PcmController, p)
  \/ \E t \in TIds :
       \/ Start(MainThread, t)
       \/ Stop(MainThread, t)
       \/ \E i \in PcmIdx : Drain(PcmController, t, i)
  \/ \E c \in Callers :
       \/ Cancel(c)
       \/ Join(c)
       \/ DrainNext(c)
  \/ \E t \in TIds, s \in Slots :
       \/ WorkerSynced(t, s)
       \/ WorkerNext(t, s)

SpecDrain == Init /\ [][NextDrain]_vars

\* The steps of a drain that are taken once they are possible: all but the
\* return of the wait without a signal, which nothing guarantees.
DrainSteps(c) ==
  \/ DrainLock(c)
  \/ DrainSend(c)
  \/ DrainWait(c)
  \/ DrainWoken(c)
  \/ DrainUnlock(c)

\* Fair scheduling of the drain: every thread that can take a step
\* eventually takes one (the workers, the callers inside a drain, a
\* cancellation or a join).
FairSpecDrain ==
  /\ SpecDrain
  /\ \A t \in TIds, s \in Slots : WF_vars(WorkerSynced(t, s))
  /\ \A t \in TIds, s \in Slots : WF_vars(WorkerNext(t, s))
  /\ \A c \in Callers : WF_vars(DrainSteps(c))
  /\ \A c \in Callers : WF_vars(Cancel(c) \/ Join(c))

\* The name of the daemon that owns the transport is freed and forgotten,
\* as the release strategy installed by the tests does before it releases.
OwnerLost(t) ==
  /\ tr[t].mem = "alloc"
  /\ IsA2DP(tr[t].profile)
  /\ tr[t].owner
  /\ tr' = [tr EXCEPT ![t].owner = FALSE]
  /\ last' = NoCall
  /\ UNCHANGED <<transports, open_fds, worker, pc, arg, held, cref, link, blocked>>

\* The Bluetooth link of the first A2DP transport of the device: the main
\* thread creates the transport, acquires it, drives it through the A2DP
\* states and destroys it, the daemon's name may be forgotten, and the
\* workers run and clean up.
NextBluez ==
  \/ \E p \in Paths, profile \in ProfilesA2DP :
       /\ Unused = TIds
       /\ CreateA2DP(MainThread, p, profile)
  \/ \E t \in TIds :
       \/ AcquireRecorded(MainThread, t)
       \/ OwnerLost(t)
       \/ DestroyBegin(MainThread, t)
       \/ \E state \in A2dpStates : SetA2dpState(MainThread, t, state)
  \/ \E c \in Callers :
       \/ UnrefFree(c)
       \/ Cancel(c)
       \/ Join(c)
       \/ \E i \in PcmIdx : DestroyLock(c, i)
       \/ DestroyRelease(c)
       \/ DestroyUnlock(c)
       \/ DestroyUnref(c)
  \/ \E t \in TIds, s \in Slots : WorkerNext(t, s)

SpecBluez == Init /\ [][NextBluez]_vars

\* Every operation of the transport core that takes a lock, on the first
\* transport of the device: the main thread creates the transport, acquires
\* it, starts its workers, selects codecs and destroys it; the thread that
\* serves the PCM clients looks it up, drains its PCMs and drops its
\* references; the workers and the RFCOMM worker answer.
NextLocks ==
  \/ \E p \in Paths, profile \in Profiles :
       /\ Unused = TIds
       /\ \/ CreateA2DP(MainThread, p, profile)
          \/ CreateSCO(MainThread, p, profile)
  \/ \E p \in Paths : Lookup(PcmController, p)
  \/ \E t \in TIds :
       \/ Unref(PcmController, t)
       \/ Acquire(MainThread, t)
       \/ Start(MainThread, t)
       \/ DestroyBegin(MainThread, t)
       \/ \E codec_id \in HfpCodecs : SelectCodecSco(MainThread, t, codec_id)
       \/ \E sep \in Seps : SelectCodecA2dp(MainThread, t, sep)
       \/ \E i \in PcmIdx : Drain(PcmController, t, i)
  \/ \E c \in Callers :
       \/ CallerNext(c)
       \/ DrainNext(c)
  \/ \E t \in TIds : RfcommCompleted(t)
  \/ \E t \in TIds, s \in Slots :
       \/ WorkerSynced(t, s)
       \/ WorkerNext(t, s)

SpecLocks == Init /\ [][NextLocks]_vars

(***************************************************************************)
(* A PCM-side operation on the Bluetooth descriptor.                       *)
(***************************************************************************)
\* A thread that works on the PCM i of t takes the mutex of the endpoint,
\* ...
ReaderLock(c, t, i) ==
  /\ c = PcmController
  /\ CanUse(c, t)
  /\ tr[t].profile # "NONE"
  /\ tr[t].pcm[i].mutex = NoOwner
  /\ tr' = [tr EXCEPT ![t] = pcm_mutex_lock(@, i, c)]
  /\ pc' = [pc EXCEPT ![c] = <<"reader", "read", i>>]
  /\ arg' = [arg EXCEPT ![c] = t]
  /\ last' = NoCall
  /\ UNCHANGED <<transports, open_fds, worker, held, cref, link, blocked>>

\* ... reads t->bt_fd, ...
ReaderRead(c) ==
  /\ pc[c][1] = "reader" /\ pc[c][2] = "read"
  /\ pc' = [pc EXCEPT ![c] = <<"reader", "use", pc[c][3], tr[arg[c]].bt_fd>>]
  /\ last' = NoCall
  /\ UNCHANGED <<tr, transports, open_fds, worker, arg, held, cref, link, blocked>>

\* ... works with the descriptor it has read and releases the mutex.
ReaderUnlock(c) ==
  /\ pc[c][1] = "reader" /\ pc[c][2] = "use"
  /\ tr' = [tr EXCEPT ![arg[c]].pcm[pc[c][3]].mutex =
                        IF @ = c THEN NoOwner ELSE @]
  /\ pc' = [pc EXCEPT ![c] = Idle]
  /\ arg' = [arg EXCEPT ![c] = NULL]
  /\ last' = NoCall
  /\ UNCHANGED <<transports, open_fds, worker, held, cref, link, blocked>>

\* The cleanup of the workers of the first transport of the device against
\* a thread that works on its PCMs: the main thread creates the transport,
\* acquires it, starts and stops its workers, the workers run, return and
\* clean up, and the thread serving the PCM clients looks the transport up
\* and reads its descriptor under a PCM mutex.
NextCleanup ==
  \/ \E p \in Paths, profile \in Profiles :
       /\ Unused = TIds
       /\ \/ CreateA2DP(MainThread, p, profile)
          \/ CreateSCO(MainThread, p, profile)
  \/ \E p \in Paths : Lookup(PcmController, p)
  \/ \E t \in TIds :
       \/ Acquire(MainThread, t)
       \/ Start(MainThread, t)
       \/ Stop(MainThread, t)
       \/ \E i \in PcmIdx : ReaderLock(PcmController, t, i)
  \/ \E c \in Callers :
       \/ Cancel(c)
       \/ Join(c)
       \/ ReaderRead(c)
       \/ ReaderUnlock(c)
  \/ \E t \in TIds, s \in Slots :
       \/ WorkerReturn(t, s)
       \/ WorkerNext(t, s)

SpecCleanup == Init /\ [][NextCleanup]_vars

(***************************************************************************)
(* Volume.                                                                 *)
(***************************************************************************)
\* Channel levels are hundredths of a decibel.  The levels of the model are
\* the multiples of 20 dB, whose loudness and whose mean are exact.
LevelStep == 2000
Levels == {k * LevelStep : k \in (0 - MaxLevelSteps)..MaxLevelSteps}

RECURSIVE Pow2(_)
Pow2(n) == IF n = 0 THEN 1 ELSE 2 * Pow2(n - 1)

\* Integer division of C: the quotient is truncated towards zero.
CDiv(a, b) == IF a >= 0 THEN a \div b ELSE 0 - ((0 - a) \div b)

\* audio_decibel_to_loudness: the loudness ratio 2^(dB / 10) of a level in
\* decibels, for the multiples of 10 dB, as a fraction.
audio_decibel_to_loudness(db) ==
  IF db >= 0
  THEN [num |-> Pow2(db \div 10), den |-> 1]
  ELSE [num |-> 1, den |-> Pow2((0 - db) \div 10)]

Min(a, b) == IF a < b THEN a ELSE b
Max(a, b) == IF a > b THEN a ELSE b

\* ba_transport_pcm_volume_level_to_bt: the product is truncated to int and
\* clamped to 0..max_bt_volume.
ba_transport_pcm_volume_level_to_bt(pcm, value) ==
  LET loudness == audio_decibel_to_loudness(CDiv(value, 100))
      volume == (loudness.num * pcm.max_bt_volume) \div loudness.den
  IN Min(Max(volume, 0), pcm.max_bt_volume)

\* The level ba_transport_pcm_volume_update propagates for an A2DP PCM.
PropagatedLevel(pcm) ==
  IF ~pcm.volume[1].muted /\ ~pcm.volume[2].muted
  THEN CDiv(pcm.volume[1].level + pcm.volume[2].level, 2)
  ELSE 0

\* What ba_transport_pcm_volume_update does for the PCM i of r: the
\* property set on the daemon (rpc, volume), the signal to the RFCOMM
\* worker, the updates published to the PCM clients and the return value.
NoVolume == -1
VolumeOutcome(rpc, volume, signal, updates) ==
  [rpc |-> rpc, volume |-> volume, signal |-> signal, updates |-> updates,
   ret |-> 0]

\* A volume update that publishes nothing when it does not propagate.
ba_transport_pcm_volume_update_quiet(r, i) ==
  IF r.pcm[i].soft_volume /\ r.profile \in {"A2DP_SOURCE", "HFP_AG", "HSP_AG"}
  THEN VolumeOutcome("none", NoVolume, "none", 0)
  ELSE IF IsA2DP(r.profile)
       THEN VolumeOutcome("Set",
              ba_transport_pcm_volume_level_to_bt(r.pcm[i], PropagatedLevel(r.pcm[i])),
              "none", 1)
       ELSE IF IsSCO(r.profile) /\ r.rfcomm
            THEN VolumeOutcome("none", NoVolume, "UPDATE_VOLUME", 1)
            ELSE VolumeOutcome("none", NoVolume, "none", 1)

ba_transport_pcm_volume_update(r, i) ==
  IF r.pcm[i].soft_volume /\ r.profile \in {"A2DP_SOURCE", "HFP_AG", "HSP_AG"}
  THEN VolumeOutcome("none", NoVolume, "none", 1)
  ELSE IF IsA2DP(r.profile)
       THEN VolumeOutcome("Set",
              ba_transport_pcm_volume_level_to_bt(r.pcm[i], PropagatedLevel(r.pcm[i])),
              "none", 1)
       ELSE IF IsSCO(r.profile) /\ r.rfcomm
            THEN VolumeOutcome("none", NoVolume, "UPDATE_VOLUME", 1)
            ELSE VolumeOutcome("none", NoVolume, "none", 1)

\* A client of the PCM IPC sets the volume of a channel of a PCM.
PcmSetVolume(c, t, i, ch, level, muted) ==
  /\ CanUse(c, t)
  /\ tr[t].profile # "NONE"
  /\ tr' = [tr EXCEPT ![t].pcm[i].volume[ch] = [level |-> level, muted |-> muted]]
  /\ last' = NoCall
  /\ UNCHANGED <<transports, open_fds, worker, pc, arg, held, cref, link, blocked>>

\* A client of the PCM IPC switches the software volume of a PCM.
PcmSetSoftVolume(c, t, i, soft) ==
  /\ CanUse(c, t)
  /\ tr[t].profile # "NONE"
  /\ tr[t].pcm[i].soft_volume # soft
  /\ tr' = [tr EXCEPT ![t].pcm[i].soft_volume = soft]
  /\ last' = NoCall
  /\ UNCHANGED <<transports, open_fds, worker, pc, arg, held, cref, link, blocked>>

\* ba_transport_pcm_volume_update.  The daemon may refuse the property,
\* which is logged and changes nothing.
VolumeUpdate(c, t, i) ==
  /\ CanUse(c, t)
  /\ tr[t].profile # "NONE"
  /\ LET o == ba_transport_pcm_volume_update(tr[t], i) IN
     /\ tr' = IF o.signal # "none"
              THEN [tr EXCEPT ![t].rfcomm_signal = o.signal] ELSE tr
     /\ \E set_ok \in (IF o.rpc = "Set" THEN BOOLEAN ELSE {TRUE}) :
          last' = [Call("volume_update", t, o.ret, o.rpc, {}, {})
                     EXCEPT !.input = [pcm |-> i, volume |-> o.volume,
                                       signal |-> o.signal,
                                       updates |-> o.updates,
                                       set_ok |-> set_ok]]
  /\ UNCHANGED <<transports, open_fds, worker, pc, arg, held, cref, link, blocked>>

\* The volume of the PCMs of the first transport of the device, of any
\* profile, with or without an RFCOMM session: the main thread creates the
\* transport, and sets the volumes of the first PCM and updates them.
NextVolume ==
  \/ \E p \in Paths, profile \in Profiles :
       /\ Unused = TIds
       /\ \/ CreateA2DP(MainThread, p, profile)
          \/ CreateSCO(MainThread, p, profile)
          \/ CreateSCOExternal(MainThread, p, profile)
  \/ \E t \in TIds, i \in {1} :
       \/ \E ch \in 1..2, level \in Levels, muted \in BOOLEAN :
            PcmSetVolume(MainThread, t, i, ch, level, muted)
       \/ \E soft \in BOOLEAN : PcmSetSoftVolume(MainThread, t, i, soft)
       \/ VolumeUpdate(MainThread, t, i)

SpecVolume == Init /\ [][NextVolume]_vars

(***************************************************************************)
(* Failures inside the creation of a transport.                            *)
(***************************************************************************)
\* The steps of transport_new that can fail.
NewFailures == {"calloc", "pipe", "owner", "path"}

\* The references the transports hold on their device: one from
\* transport_new until the transport is freed.
DeviceRefCount == Cardinality({t \in TIds : tr[t].mem = "alloc"})

\* What a create call finds: the device's table and reference count.
Before == [table |-> transports, device_refs |-> DeviceRefCount]

\* The process has been ended by a fault in one of its threads: none of
\* its threads takes a step any more.
Crashed == \A c \in Callers : pc[c] = <<"crashed", "crashed">>

\* The transport as transport_new leaves it when the step fail fails:
\* counted once, with the strings duplicated so far.
transport_new_partial(fail) ==
  [NoTransport("alloc") EXCEPT
     !.ref_count = 1, !.owner = (fail = "path"),
     !.thread_enc = IF fail = "pipe" THEN ThreadInit ELSE ThreadPiped,
     !.thread_dec = IF fail = "pipe" THEN ThreadInit ELSE ThreadPiped]

\* ba_transport_new_a2dp or ba_transport_new_sco whose transport_new fails.
\* After a failed calloc there is nothing to unwind.  After the other
\* failures the transport is unref'd with bluez_dbus_path still NULL: the
\* table, keyed by strings, is asked to steal the key NULL, which either
\* finds nothing or faults.
CreateNewFails(c, fail) ==
  /\ c = MainThread
  /\ pc[c] = Idle
  /\ Unused # {}
  /\ IF fail = "calloc"
     THEN /\ last' = [NoCall EXCEPT !.op = "create", !.ret = NULL,
                                    !.errno = "ENOMEM", !.input = Before]
          /\ UNCHANGED <<tr, transports, pc>>
     ELSE LET t == NewTransport
              u == unref_locked(transport_new_partial(fail), transports) IN
          \E fault \in BOOLEAN :
            IF fault
            THEN /\ tr' = [tr EXCEPT ![t] = u.t]
                 /\ pc' = [k \in Callers |-> <<"crashed", "crashed">>]
                 /\ last' = NoCall
                 /\ UNCHANGED transports
            ELSE /\ tr' = [tr EXCEPT ![t] = NoTransport("freed")]
                 /\ transports' = u.table
                 /\ last' = [NoCall EXCEPT !.op = "create", !.t = t,
                                           !.ret = NULL, !.errno = "ENOMEM",
                                           !.input = Before]
                 /\ UNCHANGED pc
  /\ UNCHANGED <<open_fds, worker, arg, held, cref, link, blocked>>

\* ba_transport_new_sco up to the creation of the RFCOMM session: the
\* transport is in the table from transport_new on.
CreateSCOBegin(c, p, profile) ==
  /\ c = MainThread
  /\ pc[c] = Idle
  /\ Unused # {}
  /\ profile \in ProfilesSCO
  /\ \E esco \in BOOLEAN :
       LET t == NewTransport IN
       /\ tr' = [tr EXCEPT ![t] =
                   [ba_transport_new_sco(p, profile, "MSBC", esco, FALSE)
                      EXCEPT !.registered = FALSE]]
       /\ transports' = g_hash_table_insert(transports, p, t)
       /\ pc' = [pc EXCEPT ![c] = <<"new_sco", "rfcomm", Before>>]
       /\ arg' = [arg EXCEPT ![c] = t]
  /\ last' = NoCall
  /\ UNCHANGED <<open_fds, worker, held, cref, link, blocked>>

\* ba_rfcomm_new and the rest of ba_transport_new_sco: with the session the
\* PCMs are registered and the transport is returned; without it the
\* transport is unref'd and NULL is returned.
CreateSCORfcomm(c) ==
  /\ pc[c][1] = "new_sco"
  /\ LET t == arg[c] IN
     \E ok \in BOOLEAN :
       IF ok
       THEN /\ tr' = [tr EXCEPT ![t].rfcomm = TRUE, ![t].registered = TRUE]
            /\ cref' = [cref EXCEPT ![t] = TRUE]
            /\ last' = [Call("create", t, t, "none", {}, {})
                          EXCEPT !.input = pc[c][3]]
            /\ UNCHANGED transports
       ELSE LET u == unref_locked(tr[t], transports) IN
            /\ tr' = [tr EXCEPT ![t] = IF u.t.ref_count = 0
                                       THEN NoTransport("freed") ELSE u.t]
            /\ transports' = u.table
            /\ last' = [Call("create", t, NULL, "none", {}, {})
                          EXCEPT !.errno = "ENOMEM", !.input = pc[c][3]]
            /\ UNCHANGED cref
  /\ pc' = [pc EXCEPT ![c] = Idle]
  /\ arg' = [arg EXCEPT ![c] = NULL]
  /\ UNCHANGED <<open_fds, worker, held, link, blocked>>

\* The creation of the transports of the device with its failures: the main
\* thread creates A2DP and SCO transports and destroys them, clients look
\* them up and drop their references.
NextCreate ==
  \/ \E p \in Paths, profile \in Profiles :
       \/ CreateA2DP(MainThread, p, profile)
       \/ CreateSCOBegin(MainThread, p, profile)
  \/ \E fail \in NewFailures : CreateNewFails(MainThread, fail)
  \/ \E c \in Callers, p \in Paths : Lookup(c, p)
  \/ \E c \in Callers, t \in TIds :
       \/ Unref(c, t)
       \/ DestroyBegin(c, t)
  \/ \E c \in Callers :
       \/ CreateSCORfcomm(c)
       \/ UnrefFree(c)
       \/ Cancel(c)
       \/ \E i \in PcmIdx : DestroyLock(c, i)
       \/ DestroyRelease(c)
       \/ DestroyUnlock(c)
       \/ DestroyUnref(c)

SpecCreate == Init /\ [][NextCreate]_vars

(***************************************************************************)
(* Reference counting and the transports table.                            *)
(***************************************************************************)
(* The signal pipe of a worker slot: ba_transport_thread_send_signal       *)
(* writes one record, ba_transport_thread_recv_signal reads one.           *)
(***************************************************************************)
\* The signals of the model.
Signals == {"PING", "PCM_SYNC"}

\* How the read of ba_transport_thread_recv_signal ends, once it is not
\* interrupted any more (it is restarted on EINTR): a whole record, fewer
\* bytes than a record (records are written whole, so this is the end of
\* file on an empty pipe), or an error.
Reads == {"record", "short", "error"}

\* A receive that hands out the record written last.
ba_transport_thread_recv_signal_newest(th, read) ==
  IF read = "record"
  THEN [th |-> [th EXCEPT !.pipe = SubSeq(@, 1, Len(@) - 1)],
        sig |-> th.pipe[Len(th.pipe)]]
  ELSE [th |-> th, sig |-> "PING"]

\* ba_transport_thread_recv_signal: the record at the read end is taken
\* from the pipe and returned; any other outcome of the read yields PING.
ba_transport_thread_recv_signal(th, read) ==
  IF read = "record"
  THEN [th |-> [th EXCEPT !.pipe = Tail(@)], sig |-> Head(th.pipe)]
  ELSE [th |-> th, sig |-> "PING"]

\* A thread that holds the transport sends a signal to a slot; the write
\* blocks while the pipe is full.  The history keeps the signal and whether
\* it was sent with no worker on the slot.
SendSignal(c, t, s, sig) ==
  /\ CanUse(c, t)
  /\ Len(tr[t][s].pipe) < MaxPipe
  /\ Len(tr[t][s].sent) < MaxSignals
  /\ tr' = [tr EXCEPT ![t][s] =
              [ba_transport_thread_send_signal(@, sig) EXCEPT
                 !.sent = Append(@, [sig |-> sig,
                                     idle |-> worker[t][s].st = "none"])]]
  /\ last' = [Call("send_signal", t, 0, "none", {}, {})
                EXCEPT !.input = [slot |-> s, sig |-> sig]]
  /\ UNCHANGED <<transports, open_fds, worker, pc, arg, held, cref, link, blocked>>

\* The worker in its loop receives a signal: the read blocks while the pipe
\* is empty, unless it fails.
WorkerRecv(t, s, read) ==
  /\ worker[t][s].st = "loop"
  /\ read = "record" => tr[t][s].pipe # <<>>
  /\ read = "short" => tr[t][s].pipe = <<>>
  /\ LET o == ba_transport_thread_recv_signal(tr[t][s], read) IN
     /\ tr' = [tr EXCEPT ![t][s] =
                 [o.th EXCEPT !.rcvd = IF read = "record"
                                       THEN Append(@, o.sig) ELSE @]]
     /\ last' = [Call("recv_signal", t, o.sig, "none", {}, {})
                   EXCEPT !.input = [slot |-> s, read |-> read]]
  /\ UNCHANGED <<transports, open_fds, worker, pc, arg, held, cref, link, blocked>>

\* The signals of the first transport of the device: the main thread
\* creates it, sends signals to its slots, starts and stops its workers,
\* and the workers receive.
NextSignal ==
  \/ \E p \in Paths, profile \in Profiles :
       /\ Unused = TIds
       /\ \/ CreateA2DP(MainThread, p, profile)
          \/ CreateSCO(MainThread, p, profile)
  \/ \E t \in TIds :
       \/ Start(MainThread, t)
       \/ Stop(MainThread, t)
       \/ \E s \in Slots, sig \in Signals : SendSignal(MainThread, t, s, sig)
  \/ \E c \in Callers :
       \/ Cancel(c)
       \/ Join(c)
  \/ \E t \in TIds, s \in Slots :
       \/ \E read \in Reads : WorkerRecv(t, s, read)
       \/ WorkerNext(t, s)

SpecSignal == Init /\ [][NextSignal]_vars

(***************************************************************************)
(* The end of a transport: the unref that brings the count to zero and     *)
(* what it frees.                                                           *)
(***************************************************************************)
\* ba_transport_unref called by the main thread on the reference it got
\* from the create call, in place of ba_transport_destroy.
UnrefCreated(c, t) ==
  /\ c = MainThread
  /\ pc[c] = Idle
  /\ tr[t].mem = "alloc"
  /\ cref[t]
  /\ cref' = [cref EXCEPT ![t] = FALSE]
  /\ LET u == unref_locked(tr[t], transports) IN
     /\ tr' = [tr EXCEPT ![t] = u.t]
     /\ transports' = u.table
     /\ IF u.t.ref_count > 0
        THEN /\ pc' = pc /\ arg' = arg
        ELSE /\ pc' = [pc EXCEPT ![c] = <<"unref", "free">>]
             /\ arg' = [arg EXCEPT ![c] = t]
  /\ last' = NoCall
  /\ UNCHANGED <<open_fds, worker, held, link, blocked>>

\* The life of the first transport of the device up to its end: the main
\* thread creates and starts it, and destroys it or drops its reference; a
\* client thread looks it up, acquires it, opens its PCMs and drops its
\* reference; the workers run until they are cancelled.
NextFree ==
  \/ \E p \in Paths, profile \in Profiles :
       /\ Unused = TIds
       /\ \/ CreateA2DP(MainThread, p, profile)
          \/ CreateSCO(MainThread, p, profile)
  \/ \E p \in Paths : Lookup(PcmController, p)
  \/ \E t \in TIds :
       \/ Acquire(PcmController, t)
       \/ \E i \in PcmIdx : PcmOpen(PcmController, t, i)
       \/ Unref(PcmController, t)
       \/ Start(MainThread, t)
       \/ DestroyBegin(MainThread, t)
       \/ UnrefCreated(MainThread, t)
  \/ \E c \in Callers :
       \/ UnrefFreeRecorded(c)
       \/ Cancel(c)
       \/ Join(c)
       \/ \E i \in PcmIdx : DestroyLock(c, i)
       \/ DestroyRelease(c)
       \/ DestroyUnlock(c)
       \/ DestroyUnref(c)
  \/ \E t \in TIds, s \in Slots :
       \/ WorkerReady(t, s)
       \/ WorkerCleanupLock1(t, s)
       \/ WorkerCleanupLock2(t, s)
       \/ WorkerCleanupRelease(t, s)
       \/ WorkerCleanupUnlock(t, s)
       \/ WorkerCleanupUnrefRecorded(t, s)

SpecFree == Init /\ [][NextFree]_vars

(***************************************************************************)
(* ba_transport_acquire and ba_transport_release step by step: the lock of *)
(* bt_fd_mtx, the test of bt_fd, the request to the Bluetooth daemon or    *)
(* the kernel, and the unlock.                                              *)
(***************************************************************************)
\* A lock operation that returns without taking the mutex.
bt_fd_mutex_lock_skip(r, self) == r

\* pthread_mutex_lock(&t->bt_fd_mtx) by thread self.
bt_fd_mutex_lock(r, self) == [r EXCEPT !.bt_fd_mtx = self]

\* pthread_mutex_unlock(&t->bt_fd_mtx)
bt_fd_mutex_unlock(r) == [r EXCEPT !.bt_fd_mtx = NoOwner]

\* What is kept of a call that is under way: the value it returns, whether
\* it asked the daemon or the kernel for a link, the acquire calls on the
\* transport that had left their critical section when this one entered
\* its own, and whether a release has closed the link since.
BtCallInit == [ret |-> Closed, asked |-> FALSE, after |-> {}, released |-> FALSE]

\* The acquire calls on t that have left their critical section and have
\* not returned to their caller yet.
AcquiresDone(t) ==
  {c \in Callers : arg[c] = t /\ pc[c][1] = "bt_acquire" /\ pc[c][2] = "bt_done"}

\* ba_transport_acquire (op "bt_acquire") or ba_transport_release (op
\* "bt_release") is called; the caller of a release holds the PCM endpoints
\* lock, as ba_transport_release asks for.
BtBegin(c, t, op) ==
  /\ CanUse(c, t)
  /\ tr[t].registered
  /\ IF op = "bt_release"
     THEN /\ \A i \in PcmIdx : tr[t].pcm[i].mutex = NoOwner
          /\ tr' = [tr EXCEPT ![t] = pcm_mutex_lock(pcm_mutex_lock(@, 1, c), 2, c)]
     ELSE tr' = tr
  /\ pc' = [pc EXCEPT ![c] = <<op, "bt_lock", BtCallInit>>]
  /\ arg' = [arg EXCEPT ![c] = t]
  /\ last' = NoCall
  /\ UNCHANGED <<transports, open_fds, worker, held, cref, link, blocked>>

\* The strategy takes bt_fd_mtx.
BtLock(c) ==
  /\ pc[c][2] = "bt_lock"
  /\ tr[arg[c]].bt_fd_mtx = NoOwner
  /\ tr' = [tr EXCEPT ![arg[c]] = bt_fd_mutex_lock(@, c)]
  /\ pc' = [pc EXCEPT ![c] =
              <<pc[c][1],
                IF pc[c][1] = "bt_acquire" THEN "bt_check" ELSE "bt_body",
                [pc[c][3] EXCEPT !.after = AcquiresDone(arg[c])]>>]
  /\ last' = NoCall
  /\ UNCHANGED <<transports, open_fds, worker, arg, held, cref, link, blocked>>

\* The keep-alive test of the acquire strategies: a transport that is
\* acquired is returned as it is.
BtAcquireCheck(c) ==
  /\ pc[c][1] = "bt_acquire" /\ pc[c][2] = "bt_check"
  /\ pc' = [pc EXCEPT ![c] =
              IF tr[arg[c]].bt_fd # Closed
              THEN <<"bt_acquire", "bt_unlock",
                     [pc[c][3] EXCEPT !.ret = tr[arg[c]].bt_fd]>>
              ELSE <<"bt_acquire", "bt_ask", pc[c][3]>>]
  /\ last' = NoCall
  /\ UNCHANGED <<tr, transports, open_fds, worker, arg, held, cref, link, blocked>>

\* The rest of the acquire strategy of a thread that found bt_fd = -1: the
\* request, and bt_fd and the MTUs stored from the answer.
BtAcquireAsk(c) ==
  /\ pc[c][1] = "bt_acquire" /\ pc[c][2] = "bt_ask"
  /\ LET t == arg[c] IN
     \E out \in AcquireReplies(tr[t]) :
       LET o == ba_transport_acquire([tr[t] EXCEPT !.bt_fd = Closed],
                                     out, open_fds) IN
       /\ tr' = [tr EXCEPT ![t] = o.t]
       /\ open_fds' = Fds(open_fds, o)
       /\ link' = [link EXCEPT ![t] = AfterAcquire(@, o.ret)]
       /\ pc' = [pc EXCEPT ![c] =
                   <<"bt_acquire", "bt_unlock",
                     [pc[c][3] EXCEPT !.ret = o.ret, !.asked = TRUE]>>]
  /\ last' = NoCall
  /\ UNCHANGED <<transports, worker, arg, held, cref, blocked>>

\* The release strategy between the lock and the unlock.  The acquire calls
\* that are under way are told if it closed the link.
BtReleaseBody(c) ==
  /\ pc[c][1] = "bt_release" /\ pc[c][2] = "bt_body"
  /\ LET t == arg[c] IN
     \E out \in ReleaseReplies :
       LET o == ba_transport_release(tr[t], out) IN
       /\ tr' = [tr EXCEPT ![t] = o.t]
       /\ open_fds' = Fds(open_fds, o)
       /\ link' = [link EXCEPT ![t] = AfterRelease(o.ret)]
       /\ pc' = [k \in Callers |->
                   IF k = c
                   THEN <<"bt_release", "bt_unlock",
                          [pc[c][3] EXCEPT !.ret = o.ret]>>
                   ELSE IF arg[k] = t /\ pc[k][1] = "bt_acquire"
                           /\ o.t.bt_fd # tr[t].bt_fd
                        THEN <<pc[k][1], pc[k][2],
                               [pc[k][3] EXCEPT !.released = TRUE]>>
                        ELSE pc[k]]
  /\ last' = NoCall
  /\ UNCHANGED <<transports, worker, arg, held, cref, blocked>>

\* The strategy unlocks bt_fd_mtx.  A release returns, and its caller
\* unlocks the PCM endpoints.
BtUnlock(c) ==
  /\ pc[c][2] = "bt_unlock"
  /\ IF pc[c][1] = "bt_acquire"
     THEN /\ tr' = [tr EXCEPT ![arg[c]] = bt_fd_mutex_unlock(@)]
          /\ pc' = [pc EXCEPT ![c][2] = "bt_done"]
          /\ arg' = arg
          /\ last' = NoCall
     ELSE /\ tr' = [tr EXCEPT ![arg[c]] =
                      ba_transport_pcms_unlock(bt_fd_mutex_unlock(@))]
          /\ pc' = [pc EXCEPT ![c] = Idle]
          /\ arg' = [arg EXCEPT ![c] = NULL]
          /\ last' = Call("release", arg[c], pc[c][3].ret, "none", {}, {})
  /\ UNCHANGED <<transports, open_fds, worker, held, cref, link, blocked>>

\* The acquire call returns to its caller; the calls under way forget it.
BtReturn(c) ==
  /\ pc[c][1] = "bt_acquire" /\ pc[c][2] = "bt_done"
  /\ pc' = [k \in Callers |->
             IF k = c THEN Idle
             ELSE IF pc[k][1] \in {"bt_acquire", "bt_release"}
                  THEN <<pc[k][1], pc[k][2],
                         [pc[k][3] EXCEPT !.after = @ \ {c}]>>
                  ELSE pc[k]]
  /\ arg' = [arg EXCEPT ![c] = NULL]
  /\ last' = [Call("acquire", arg[c], pc[c][3].ret, "none", {}, {})
                EXCEPT !.input = pc[c][3]]
  /\ UNCHANGED <<tr, transports, open_fds, worker, held, cref, link, blocked>>

\* Acquire and release calls on the first transport of the device, made by
\* the main thread, which created it, and by a client thread, which looked
\* it up.
NextBtFd ==
  \/ \E p \in Paths, profile \in Profiles :
       /\ Unused = TIds
       /\ \/ CreateA2DP(MainThread, p, profile)
          \/ CreateSCO(MainThread, p, profile)
  \/ \E c \in Callers, p \in Paths : Lookup(c, p)
  \/ \E c \in Callers, t \in TIds, op \in {"bt_acquire", "bt_release"} :
       BtBegin(c, t, op)
  \/ \E c \in Callers :
       \/ BtLock(c)
       \/ BtAcquireCheck(c)
       \/ BtAcquireAsk(c)
       \/ BtReleaseBody(c)
       \/ BtUnlock(c)
       \/ BtReturn(c)

SpecBtFd == Init /\ [][NextBtFd]_vars

(***************************************************************************)
(* ba_transport_start in the two steps a caller takes: the check of the    *)
(* two thread ids, which is made without any lock, and the creation of the *)
(* workers.  ba_transport_set_a2dp_state assigns the state first and for   *)
(* ACTIVE returns what ba_transport_start returns.                         *)
(***************************************************************************)

\* The part of ba_transport_start after the check of the ids.
ba_transport_start_create(r, w, t, both, fail) ==
  IF IsA2DP(r.profile)
  THEN a2dp_audio_thread_create(r, w, t, both, fail)
  ELSE IF IsSCO(r.profile)
       THEN ba_transport_thread_create(r, w, t, "thread_enc", fail # 1)
       ELSE [t |-> r, w |-> w, ret |-> -1]

\* The slots ba_transport_start calls pthread_create on, in order, when the
\* pthread_create at position fail fails (0: none fails).
StartSlots(profile, both, fail) ==
  LET slots == IF IsA2DP(profile) THEN A2dpSlots(profile, both)
               ELSE <<"thread_enc">> IN
  IF fail = 1 \/ Len(slots) = 1 THEN <<slots[1]>> ELSE slots

\* The check of lines 703-705: the call returns 0 when a slot holds a
\* thread id, and goes on to create the workers otherwise.  The calls are
\* counted up to MaxRefs references on the transport.
StartCheck(c, t, op) ==
  /\ CanUse(c, t)
  /\ tr[t].registered
  /\ tr[t].ref_count < MaxRefs
  /\ op = "set_a2dp_state" => (c = MainThread /\ IsA2DP(tr[t].profile))
  /\ LET r == IF op = "set_a2dp_state"
              THEN a2dp_state_set(tr[t], "ACTIVE") ELSE tr[t] IN
     /\ tr' = [tr EXCEPT ![t] = r]
     /\ IF r.thread_enc.id # MainThread \/ r.thread_dec.id # MainThread
        THEN /\ pc' = pc
             /\ arg' = arg
             /\ last' = [Call(op, t, 0, "none", {}, {})
                           EXCEPT !.target = IF op = "set_a2dp_state"
                                             THEN "ACTIVE" ELSE "none"]
        ELSE /\ pc' = [pc EXCEPT ![c] = <<op, "start_create">>]
             /\ arg' = [arg EXCEPT ![c] = t]
             /\ last' = NoCall
  /\ UNCHANGED <<transports, open_fds, worker, held, cref, link, blocked>>

\* The creation of the workers, lines 709-712.  The call records the slots
\* it called pthread_create on.
StartCreate(c) ==
  /\ pc[c][2] = "start_create"
  /\ \E both \in BOOLEAN, fail \in 0..2 :
       LET t == arg[c]
           o == ba_transport_start_create(tr[t], worker[t], t, both, fail) IN
       /\ tr' = [tr EXCEPT ![t] = o.t]
       /\ worker' = [worker EXCEPT ![t] = o.w]
       /\ last' = [Call(pc[c][1], t, o.ret, "none", {}, {})
                     EXCEPT !.created = Created(worker[t], o.w),
                            !.target = IF pc[c][1] = "set_a2dp_state"
                                       THEN "ACTIVE" ELSE "none",
                            !.input = StartSlots(tr[t].profile, both, fail)]
  /\ pc' = [pc EXCEPT ![c] = Idle]
  /\ arg' = [arg EXCEPT ![c] = NULL]
  /\ UNCHANGED <<transports, open_fds, held, cref, link, blocked>>

\* The first transport of the device is started by the main thread, which
\* created it, and by a client thread, which looked it up; the workers
\* created enter their loops.
NextStart ==
  \/ \E p \in Paths, profile \in Profiles :
       /\ Unused = TIds
       /\ \/ CreateA2DP(MainThread, p, profile)
          \/ CreateSCO(MainThread, p, profile)
  \/ \E c \in Callers, p \in Paths : Lookup(c, p)
  \/ \E c \in Callers, t \in TIds, op \in {"start", "set_a2dp_state"} :
       StartCheck(c, t, op)
  \/ \E c \in Callers : StartCreate(c)
  \/ \E t \in TIds, s \in Slots : WorkerReady(t, s)

SpecStart == Init /\ [][NextStart]_vars

(***************************************************************************)
\* The transports a lookup on the device can return.
Reachable == {transports[p] : p \in Paths} \ {NULL}

\* C1: whatever the interleaving of create, lookup, ref, unref, worker
\* creation and cleanup and destroy, with every holder dropping each of its
\* references once, the reference count of a transport never goes below
\* zero, never leaves zero again once it got there, and no transport the
\* table can return has a reference count of zero.
C1_ZeroOnceAndUnreachable ==
  /\ [](\A t \in Reachable : tr[t].mem = "alloc" /\ tr[t].ref_count > 0)
  /\ [][\A t \in TIds :
          /\ tr'[t].ref_count >= 0
          /\ tr[t].mem \in {"alloc", "freed"} /\ tr[t].ref_count = 0
               => tr'[t].ref_count = 0]_vars

\* A caller has just dropped the last reference: the count is zero, the
\* transport is not yet freed and the table no longer returns it.
C1_Witness ==
  \E c \in Callers :
    /\ pc[c] = <<"unref", "free">>
    /\ tr[arg[c]].mem = "alloc" /\ tr[arg[c]].ref_count = 0
    /\ arg[c] \notin Reachable

\* C2: in every state reached by creates (also with a path the table
\* already holds), lookups, refs, unrefs and destroys on one device, a
\* created transport is the one the table returns for its path if and only
\* if its reference count is greater than zero.
C2_ReachableIffReferenced ==
  \A t \in TIds :
    tr[t].mem = "alloc" =>
      (g_hash_table_lookup(transports, tr[t].path) = t <=> tr[t].ref_count > 0)

(***************************************************************************)
(* The acquire and release strategies.                                     *)
(***************************************************************************)
\* The transports that are created and not yet freed.
Live == {t \in TIds : tr[t].mem = "alloc"}

\* A release call on t has just returned.
Released(t) == last.op = "release" /\ last.t = t

Acquired(t) == last.op = "acquire" /\ last.t = t

\* The MTUs a successful acquire stores, by strategy.
MtusSet(r) ==
  IF IsA2DP(r.profile)
  THEN r.mtu_read = MtuRead /\ r.mtu_write = MtuWrite
  ELSE r.mtu_read = MtuSco /\ r.mtu_write = MtuSco

\* C4: an acquire call (A2DP or SCO) on a transport whose bt_fd is -1
\* either stores a newly opened descriptor in bt_fd, sets both MTUs and
\* returns that descriptor, or returns -1 with bt_fd still -1 and with no
\* descriptor it opened left open; nothing else happens.
C4_AcquireTwoOutcomes ==
  \A t \in TIds :
    Acquired(t) /\ last.pre_fd = Closed =>
      \/ /\ last.ret \in FDs /\ tr[t].bt_fd = last.ret
         /\ last.opened = {last.ret} /\ last.closed = {}
         /\ last.ret \in open_fds
         /\ MtusSet(tr[t])
      \/ /\ last.ret = -1 /\ tr[t].bt_fd = Closed
         /\ last.opened \subseteq last.closed
         /\ last.opened \cap open_fds = {}

\* An SCO acquire has just failed after it had opened its socket.
C4_Witness ==
  \E t \in Live :
    /\ Acquired(t) /\ last.pre_fd = Closed
    /\ last.ret = -1 /\ last.opened # {} /\ tr[t].bt_fd = Closed

C6_AcquireKeepAlive ==
  [][\A t \in TIds :
       last'.op = "acquire" /\ last'.t = t /\ tr[t].bt_fd # Closed =>
         /\ last'.ret = tr[t].bt_fd
         /\ last'.rpc = "none"
         /\ last'.opened = {} /\ last'.closed = {} /\ open_fds' = open_fds
         /\ tr'[t].bt_fd = tr[t].bt_fd
         /\ tr'[t].mtu_read = tr[t].mtu_read
         /\ tr'[t].mtu_write = tr[t].mtu_write
         /\ tr'[t] = tr[t]]_vars

\* An acquire call on an acquired transport has just returned its bt_fd.
C6_Witness ==
  \E t \in Live :
    /\ Acquired(t) /\ last.pre_fd # Closed /\ last.pre_link = "acquired"
    /\ last.ret = last.pre_fd /\ tr[t].bt_fd = last.ret

(***************************************************************************)
(* Worker threads and destroy.                                             *)
(***************************************************************************)
\* The workers of t that were created and have not yet completed their
\* cleanup (its last step is the unref).
ActiveWorkers(t) == {s \in Slots : worker[t][s].st \notin {"none", "exited"}}

RECURSIVE SumHeld(_, _)
SumHeld(cs, t) ==
  IF cs = {} THEN 0
  ELSE LET c == CHOOSE x \in cs : TRUE IN held[c][t] + SumHeld(cs \ {c}, t)

\* The references to t held by others than its workers: the one taken at
\* creation (until the destroy that drops it has done so) and the ones taken
\* by lookup and ref.
OwnerRefs(t) ==
  (IF cref[t] THEN 1 ELSE 0)
  + (IF \E c \in Callers : pc[c][1] = "destroy" /\ pc[c][2] # "free" /\ arg[c] = t
     THEN 1 ELSE 0)
  + SumHeld(Callers, t)

\* C7: every worker holds exactly one reference from its creation to the
\* end of its cleanup: the reference count of a transport is the number of
\* references of its other holders plus one for each worker created and not
\* yet through its cleanup; so once every worker is cancelled and joined the
\* count is what it was before they were created.
C7_OneRefPerWorker ==
  \A t \in Live :
    tr[t].ref_count = OwnerRefs(t) + Cardinality(ActiveWorkers(t))

\* Both workers of a transport were created; the encoder is in its cleanup,
\* about to drop its reference, the decoder still in its loop.
C7_Witness ==
  \E t \in Live :
    /\ worker[t]["thread_enc"].st = "cl_unref"
    /\ worker[t]["thread_dec"].st = "loop"
    /\ tr[t].ref_count = OwnerRefs(t) + 2

\* The mutexes of the PCM endpoints of t that thread self holds.
HeldBy(t, self) == {i \in PcmIdx : tr[t].pcm[i].mutex = self}

\* Both workers of t are cancelled and joined: the slots hold the sentinel
\* and no thread runs on them.
BothJoined(t) ==
  \A s \in Slots :
    /\ tr[t][s].id = MainThread /\ ~tr[t][s].running
    /\ worker[t][s] = WorkerInit

\* C8: the order of ba_transport_destroy.  While it cancels and joins the
\* workers the PCMs are already deregistered (and the RFCOMM session is
\* gone); when it takes the PCM endpoints lock both workers are joined;
\* the PCM descriptors are closed and the release strategy is called with
\* both mutexes held; when it reaches the unref the mutexes are released
\* again, and its reference is still there to drop: the unref comes last.
C8_DestroyOrder ==
  \A c \in Callers :
    pc[c][1] = "destroy" /\ pc[c][2] # "free" =>
      LET t == arg[c]
          step == pc[c][2] IN
      /\ t \in Live /\ ~tr[t].registered /\ ~tr[t].rfcomm
      /\ tr[t].ref_count >= 1
      /\ step \in {"cancel_enc", "join_enc", "cancel_dec", "join_dec", "lock1"}
           => HeldBy(t, c) = {}
      /\ step \in {"lock1", "lock2", "release", "unlock", "unref"}
           => BothJoined(t)
      /\ step = "lock2" => HeldBy(t, c) = {1}
      /\ step = "release" => HeldBy(t, c) = PcmIdx
      /\ step = "unlock" =>
           /\ HeldBy(t, c) = PcmIdx
           /\ PcmFds(tr[t]) = {}
           /\ link[t] \in {"released", "failed"}
      /\ step = "unref" => HeldBy(t, c) = {} /\ PcmFds(tr[t]) = {}

\* A destroy holds both mutexes and has just closed a PCM descriptor and
\* released the link of a transport over the Release RPC.
C8_Witness ==
  \E c \in Callers :
    /\ pc[c] = <<"destroy", "unlock">>
    /\ HeldBy(arg[c], c) = PcmIdx
    /\ Released(arg[c]) /\ last.rpc = "Release"
    /\ open_fds = {}

\* ba_transport_destroy on t has just returned.
Destroyed(t) == last.op = "destroy" /\ last.t = t

\* C9 as stated: destroy drops one reference of its own and detaches the
\* transport from the table: when it has returned, a lookup no longer
\* returns the transport, however many references PCM clients still hold.
C9_DestroyDetaches ==
  \A t \in TIds : Destroyed(t) => t \notin Reachable

\* C9 as amended: destroy drops one reference of its own, the one taken at
\* creation, and the table entry goes only if that was the last reference.
\* When it has returned with references still held, the count is the
\* number of those references and the lookup still returns the transport;
\* with none held the transport is freed and no lookup returns it.
C9_DestroyDropsOneRef ==
  \A t \in TIds :
    Destroyed(t) =>
      /\ ~cref[t]
      /\ IF SumHeld(Callers, t) > 0
         THEN /\ t \in Live
              /\ tr[t].ref_count = SumHeld(Callers, t)
              /\ g_hash_table_lookup(transports, tr[t].path) = t
         ELSE tr[t].mem = "freed" /\ t \notin Reachable

\* A destroy has just returned while a client still holds a reference, and
\* the table still returns the transport.
C9_Witness ==
  \E t \in Live :
    /\ Destroyed(t) /\ SumHeld(Callers, t) > 0
    /\ tr[t].ref_count = SumHeld(Callers, t)
    /\ t \in Reachable

\* bt_fd and both PCM descriptors of t are closed.
AllClosed(t) == tr[t].bt_fd = Closed /\ PcmFds(tr[t]) = {}

Releaser(t) ==
  IF \E c \in Callers : arg[c] = t /\ pc[c][2] = "release" /\ pc'[c] # pc[c]
  THEN CHOOSE c \in Callers : arg[c] = t /\ pc[c][2] = "release" /\ pc'[c] # pc[c]
  ELSE IF \E s \in Slots : worker[t][s].st = "cl_release"
                            /\ worker'[t][s].st # "cl_release"
       THEN WorkerId(t, CHOOSE s \in Slots : worker[t][s].st = "cl_release"
                                             /\ worker'[t][s].st # "cl_release")
       ELSE NoOwner

\* C11: whenever the release strategy of a transport is called, from
\* ba_transport_destroy, from the HFP codec selection or from the cleanup
\* handler of a worker, the calling thread holds both PCM endpoint mutexes
\* of the transport; and bt_fd of a live transport goes from open to closed
\* in such a call only, so that no other thread holds a PCM endpoint mutex
\* of the transport when its bt_fd is closed.
C11_ReleaseUnderPcmsLock ==
  [][\A t \in TIds :
       /\ Releaser(t) # NoOwner <=> last'.op = "release" /\ last'.t = t
       /\ Releaser(t) # NoOwner => HeldBy(t, Releaser(t)) = PcmIdx
       /\ tr[t].bt_fd # Closed /\ tr'[t].mem = "alloc" /\ tr'[t].bt_fd = Closed
            => /\ Releaser(t) # NoOwner
               /\ \A i \in PcmIdx : tr[t].pcm[i].mutex = Releaser(t)]_vars

\* The codec selection has just released a transport with an open bt_fd,
\* holding both mutexes, while a worker of the transport is in its loop.
C11_Witness ==
  \E c \in Callers :
    /\ pc[c][1] = "select_codec" /\ pc[c][2] = "unlock"
    /\ HeldBy(arg[c], c) = PcmIdx
    /\ Released(arg[c]) /\ last.pre_fd # Closed /\ tr[arg[c]].bt_fd = Closed
    /\ worker[arg[c]]["thread_enc"].st = "loop"

(***************************************************************************)
(* The A2DP state machine and the worker threads.                          *)
(***************************************************************************)
\* ba_transport_set_a2dp_state(t, ACTIVE) returns in this step.
SetActive(t) ==
  last'.op = "set_a2dp_state" /\ last'.t = t /\ tr'[t].state = "ACTIVE"

\* This step creates a worker thread of t, or fails to in pthread_create.
CreatesWorkers(t) ==
  \/ \E s \in Slots : worker[t][s].st # "started" /\ worker'[t][s].st = "started"
  \/ last'.op \in {"set_a2dp_state", "start"} /\ last'.t = t /\ last'.ret = -1

\* C12: a ba_transport_set_a2dp_state(ACTIVE) call creates worker threads
\* if and only if no worker thread of the transport is running when it is
\* called, also after a worker has returned from its routine by itself.
C12_ActiveStartsIffNoneRunning ==
  [][\A t \in TIds :
       SetActive(t) => (CreatesWorkers(t) <=> ActiveWorkers(t) = {})]_vars

\* A worker slot of r holds a thread id, not the sentinel.
SlotInUse(r) ==
  r.thread_enc.id # MainThread \/ r.thread_dec.id # MainThread

\* C13: a ba_transport_start on a transport with a thread id in its encoder
\* or decoder slot returns 0 and changes nothing: no thread is created, the
\* reference count and both slots are as before (through
\* ba_transport_set_a2dp_state the A2DP state is all that changes).
C13_StartNoOp ==
  [][\A t \in TIds :
       /\ last'.op = "start" /\ last'.t = t /\ SlotInUse(tr[t])
            => last'.ret = 0 /\ tr'[t] = tr[t] /\ worker'[t] = worker[t]
       /\ SetActive(t) /\ SlotInUse(tr[t])
            => /\ last'.ret = 0
               /\ tr'[t] = [tr[t] EXCEPT !.state = "ACTIVE"]
               /\ worker'[t] = worker[t]]_vars

\* A start has just returned 0 on a transport whose encoder worker is in
\* its loop and whose decoder slot is free: the worker is the one that was
\* there, and the reference count is the creator's and the worker's.
C13_Witness ==
  \E t \in Live :
    /\ last.op = "start" /\ last.t = t /\ last.ret = 0
    /\ worker[t]["thread_enc"].st = "loop"
    /\ tr[t].thread_enc.id = WorkerId(t, "thread_enc")
    /\ tr[t].thread_dec.id = MainThread
    /\ tr[t].ref_count = 2

\* ba_transport_stop on t, called directly or by
\* ba_transport_set_a2dp_state(IDLE), has just returned.
Stopped(t) ==
  /\ last.t = t
  /\ last.op = "stop" \/ (last.op = "set_a2dp_state" /\ last.target = "IDLE")

SinkPending(t) ==
  /\ last.op = "set_a2dp_state" /\ last.t = t
  /\ tr[t].state = "PENDING" /\ tr[t].profile = "A2DP_SINK"
  /\ last.pre_state = "IDLE"

\* The methods of the Bluetooth daemon that acquire a transport.
AcquireRpcs == {"Acquire", "TryAcquire"}

\* C15 as stated: every ba_transport_set_a2dp_state(PENDING) on an A2DP
\* sink in the IDLE state issues exactly one acquire RPC, whatever calls of
\* set_a2dp_state, acquire, release, start and stop came before it.
C15_PendingOneRpc ==
  \A t \in TIds : SinkPending(t) => last.rpc \in AcquireRpcs

\* C15, amended: such a call issues exactly one acquire RPC if bt_fd is
\* closed when it is called, and none if the transport is acquired already
\* (the acquire it invokes then keeps the descriptor and returns it).
C15_PendingOneRpcIfClosed ==
  \A t \in TIds :
    SinkPending(t) =>
      IF last.pre_fd = Closed
      THEN last.rpc \in AcquireRpcs
      ELSE /\ last.rpc = "none"
           /\ last.ret = last.pre_fd /\ tr[t].bt_fd = last.pre_fd

\* An A2DP sink that a client had acquired in the IDLE state has just been
\* set to PENDING: no RPC, the descriptor is the client's.
C15_Witness ==
  \E t \in Live :
    /\ SinkPending(t)
    /\ last.pre_fd # Closed /\ last.pre_link = "acquired"
    /\ last.rpc = "none" /\ tr[t].bt_fd = last.pre_fd

\* ba_transport_set_a2dp_state(t, ACTIVE), called in the PENDING state, has
\* just returned and has created workers.
StartedAfterPending(t) ==
  /\ last.op = "set_a2dp_state" /\ last.t = t
  /\ tr[t].state = "ACTIVE" /\ last.pre_state = "PENDING"
  /\ last.created # {}

C17_StateAssigned ==
  \A t \in TIds :
    last.op = "set_a2dp_state" /\ last.t = t =>
      last.target \in A2dpStates /\ tr[t].state = last.target

\* ba_transport_set_a2dp_state(ACTIVE) has just returned -1 on a transport
\* in the IDLE state, no worker created: the state is ACTIVE.
C17_Witness ==
  \E t \in Live :
    /\ last.op = "set_a2dp_state" /\ last.t = t /\ last.target = "ACTIVE"
    /\ last.pre_state = "IDLE" /\ last.ret = -1 /\ last.created = {}
    /\ tr[t].state = "ACTIVE"

SelectCodecScoReturnsEarly(t) ==
  last'.op = "select_codec_sco" /\ last'.t = t /\ pc' = pc

\* C19: ba_transport_select_codec_sco on an HSP transport, or on an HFP
\* transport without an RFCOMM session (as on any transport that is not
\* HFP with an RFCOMM session), fails with "unsupported", and on
\* an HFP transport with an RFCOMM session that uses the requested codec
\* it succeeds; in all three cases nothing changes: bt_fd, the PCM
\* descriptors and the type are as before, no RFCOMM signal is sent, no
\* descriptor is closed and every lock is as it was before the call.  These are the calls
\* that return before the PCM endpoints lock; every other call is on an
\* HFP transport with an RFCOMM session that uses another codec.
C19_SelectCodecScoFrame ==
  [][\A t \in TIds :
       LET r == tr[t]
           unsupported == ~(r.profile \in ProfilesHFP /\ r.rfcomm)
           selected == /\ r.profile \in ProfilesHFP /\ r.rfcomm
                       /\ r.codec = last'.input IN
       /\ SelectCodecScoReturnsEarly(t)
            => /\ unsupported \/ selected
               /\ unsupported => last'.ret = -1 /\ last'.errno = "ENOTSUP"
               /\ selected => last'.ret = 0 /\ last'.errno = "none"
               /\ tr'[t] = r /\ open_fds' = open_fds
       /\ \A c \in Callers :
            pc[c] = Idle /\ pc'[c][1] = "select_codec" /\ arg'[c] = t
              => ~unsupported /\ r.codec # pc'[c][3]]_vars

\* A selection of mSBC has just failed with "unsupported" on an acquired
\* HSP transport with an open PCM: both descriptors are still open.
C19_Witness ==
  \E t \in Live :
    /\ last.op = "select_codec_sco" /\ last.t = t
    /\ last.ret = -1 /\ last.errno = "ENOTSUP" /\ last.input = "MSBC"
    /\ tr[t].profile \in ProfilesHSP /\ tr[t].rfcomm
    /\ tr[t].bt_fd # Closed /\ PcmFds(tr[t]) # {}
    /\ tr[t].rfcomm_signal = "none"

\* C20: ba_transport_select_codec_a2dp fails with "unsupported" and without
\* an RPC on a transport that is not A2DP; succeeds without an RPC when the
\* codec id and the configuration of the stream endpoint are those of the
\* transport; otherwise issues one SetConfiguration RPC and returns 0 if it
\* succeeds and -1 with an I/O error if it fails.  In every case the
\* profile, the codec and the configuration of the transport are as
\* before, and the type lock is free on return.
C20_SelectCodecA2dpOutcomes ==
  [][\A t \in TIds :
       last'.op = "select_codec_a2dp" /\ last'.t = t =>
         LET r == tr[t]
             sep == last'.input.sep
             rpc_ok == last'.input.rpc_ok
             same == /\ r.codec = sep.codec_id
                     /\ r.configuration = sep.configuration IN
         /\ ~IsA2DP(r.profile)
              => last'.ret = -1 /\ last'.errno = "ENOTSUP" /\ last'.rpc = "none"
         /\ IsA2DP(r.profile) /\ same
              => last'.ret = 0 /\ last'.rpc = "none"
         /\ IsA2DP(r.profile) /\ ~same
              => /\ last'.rpc = "SetConfiguration"
                 /\ rpc_ok => last'.ret = 0
                 /\ ~rpc_ok => last'.ret = -1 /\ last'.errno = "EIO"
         /\ tr'[t].profile = r.profile /\ tr'[t].codec = r.codec
         /\ tr'[t].configuration = r.configuration
         /\ tr'[t].type_mtx = NoOwner]_vars

\* A selection of the codec the transport uses, with another configuration,
\* has just failed with an I/O error: SetConfiguration was called.
C20_Witness ==
  \E t \in Live :
    /\ last.op = "select_codec_a2dp" /\ last.t = t
    /\ last.ret = -1 /\ last.errno = "EIO" /\ last.rpc = "SetConfiguration"
    /\ last.input.sep.codec_id = tr[t].codec
    /\ last.input.sep.configuration # tr[t].configuration
    /\ tr[t].type_mtx = NoOwner

(***************************************************************************)
(* Drain.                                                                  *)
(***************************************************************************)
\* The step of thread c inside ba_transport_pcm_drain on PCM endpoint i of
\* t goes from position a to position b.
DrainStep(c, a, b) == pc[c][1] = "drain" /\ pc[c][2] = a /\ pc'[c][2] = b

\* C21: with pthread_cond_wait as it is, which may return without a signal,
\* a ba_transport_pcm_drain call that finds a worker on the slot of the
\* PCM goes through these steps and no others, in this order: it locks the
\* synced mutex, writes PCM_SYNC to the pipe of the slot with the mutex
\* held, waits on the synced condition (which releases the mutex), is woken
\* in a step in which the worker of the slot, in its loop, takes a PCM_SYNC
\* from the pipe and signals the condition, takes the mutex again, releases
\* it and returns 0; and no drain call returns 0 in any other way.
C21_DrainOrder ==
  [][/\ \A c \in Callers :
          pc'[c] # pc[c] /\ (pc[c][1] = "drain" \/ pc'[c][1] = "drain") =>
            LET t == arg'[c]
                i == pc'[c][3]
                u == arg[c]
                j == pc[c][3]
                s == PcmThread(tr[u], j) IN
            \/ /\ pc[c] = Idle /\ pc'[c] = <<"drain", "lock", i>>
               /\ tr[t][PcmThread(tr[t], i)].id # MainThread
               /\ tr' = tr
            \/ /\ DrainStep(c, "lock", "send")
               /\ tr[u].pcm[j].synced_mtx = NoOwner /\ tr'[u].pcm[j].synced_mtx = c
               /\ tr'[u][s].pipe = tr[u][s].pipe
            \/ /\ DrainStep(c, "send", "cond_wait")
               /\ tr[u].pcm[j].synced_mtx = c /\ tr'[u].pcm[j].synced_mtx = c
               /\ tr'[u][s].pipe = Append(tr[u][s].pipe, "PCM_SYNC")
            \/ /\ DrainStep(c, "cond_wait", "wait")
               /\ tr[u].pcm[j].synced_mtx = c /\ tr'[u].pcm[j].synced_mtx = NoOwner
            \/ /\ DrainStep(c, "wait", "woken")
               /\ worker[u][s].st = "loop" /\ tr[u][s].id # MainThread
               /\ tr[u][s].pipe # <<>> /\ Head(tr[u][s].pipe) = "PCM_SYNC"
               /\ tr'[u][s].pipe = Tail(tr[u][s].pipe)
            \/ /\ DrainStep(c, "woken", "unlock")
               /\ tr'[u].pcm[j].synced_mtx = c
            \/ /\ pc[c] = <<"drain", "unlock", j>> /\ pc'[c] = Idle
               /\ last'.op = "drain" /\ last'.t = u /\ last'.input = j
               /\ last'.ret = 0
               /\ tr'[u].pcm[j].synced_mtx = NoOwner
     /\ last'.op = "drain" /\ last'.ret = 0 =>
          \E c \in Callers :
            pc[c] = <<"drain", "unlock", last'.input>> /\ arg[c] = last'.t
                                                        /\ pc'[c] = Idle]_vars

\* A drain of the primary PCM of an A2DP source has just returned 0: the
\* encoder is in its loop, has taken the signal from its pipe, and the
\* synced mutex is free again.
C21_Witness ==
  \E t \in Live :
    /\ last.op = "drain" /\ last.t = t /\ last.ret = 0 /\ last.input = 1
    /\ tr[t].profile = "A2DP_SOURCE"
    /\ worker[t]["thread_enc"].st = "loop" /\ tr[t].thread_enc.pipe = <<>>
    /\ tr[t].pcm[1].synced_mtx = NoOwner

\* C22: a ba_transport_pcm_drain call on a PCM whose slot holds the sentinel
\* thread id returns -1 with "no such thread" at once: no signal is written
\* to a pipe, no synced mutex is taken (the transport is as before) and the
\* caller does not block; and only such a call does: a call that goes on to
\* lock the synced mutex has found a thread id on the slot.
C22_DrainNoSuchThread ==
  [][/\ \A t \in TIds :
          last'.op = "drain" /\ last'.t = t /\ pc' = pc =>
            /\ tr[t][PcmThread(tr[t], last'.input)].id = MainThread
            /\ last'.ret = -1 /\ last'.errno = "ESRCH"
            /\ tr' = tr
     /\ \A c \in Callers :
          pc[c] = Idle /\ pc'[c][1] = "drain" =>
            /\ tr[arg'[c]][PcmThread(tr[arg'[c]], pc'[c][3])].id # MainThread
            /\ last'.op # "drain"]_vars

\* A drain of the speaker PCM of a SCO transport whose worker was stopped
\* and joined has just failed with "no such thread": the pipe is empty and
\* the synced mutex free.
C22_Witness ==
  \E t \in Live :
    /\ last.op = "drain" /\ last.t = t /\ last.ret = -1 /\ last.errno = "ESRCH"
    /\ last.input = 1 /\ IsSCO(tr[t].profile)
    /\ BothJoined(t) /\ tr[t].thread_enc.pipe = <<>>
    /\ tr[t].pcm[1].synced_mtx = NoOwner /\ pc[PcmController] = Idle

(***************************************************************************)
(* The Bluetooth link of an A2DP transport.                                *)
(***************************************************************************)
\* A step in which the release strategy of the A2DP transport t returns.
ReleaseStepA2DP(t) ==
  /\ IsA2DP(tr[t].profile)
  /\ last'.op = "release"
  /\ last'.t = t

\* C23: when an A2DP transport that holds a link is released while its
\* state is IDLE or while it has no owner, no call goes to the daemon, the
\* descriptor is closed, bt_fd becomes -1 and the release returns 0; the
\* Release call is made only with a link held, a state other than IDLE and
\* an owner.
C23_ReleaseWithoutRpc ==
  [][\A t \in TIds :
       ReleaseStepA2DP(t) =>
         /\ (tr[t].bt_fd # Closed /\ (tr[t].state = "IDLE" \/ ~tr[t].owner)) =>
              /\ last'.rpc = "none"
              /\ last'.ret = 0
              /\ last'.closed = {tr[t].bt_fd}
              /\ tr[t].bt_fd \notin open_fds'
              /\ tr'[t].bt_fd = Closed
         /\ last'.rpc = "Release" =>
              /\ tr[t].bt_fd # Closed
              /\ tr[t].state # "IDLE"
              /\ tr[t].owner]_vars

\* An owner-less A2DP transport in a state other than IDLE has just been
\* released: its link was closed without a call to the daemon.
C23_Witness ==
  \E t \in TIds :
    /\ IsA2DP(tr[t].profile)
    /\ last.op = "release"
    /\ last.t = t
    /\ ~tr[t].owner
    /\ tr[t].state # "IDLE"
    /\ last.closed # {}
    /\ last.rpc = "none"
    /\ tr[t].bt_fd = Closed

\* C24: after an acquire that took a new link from the daemon's reply, bt_fd
\* is the descriptor of the socket found in the attached list at the
\* position the reply's fd-index names.
C24_FdAtHandleIndex ==
  \A t \in TIds :
    (/\ last.op = "acquire"
     /\ last.t = t
     /\ IsA2DP(tr[t].profile)
     /\ last.opened # {}
     /\ last.input.handle < Len(last.input.fd_list)) =>
      tr[t].bt_sock = last.input.fd_list[last.input.handle + 1]

(***************************************************************************)
(* Failures inside the creation of a transport.                            *)
(***************************************************************************)
\* C25: when a step of the creation of an A2DP or SCO transport fails, the
\* create call returns NULL, the partial transport has been unref'd to zero
\* and freed, and the device's table holds the entries it held before the
\* call and the device's reference count has its value of before the call.
C25_CreateFailureUnwinds ==
  /\ ~Crashed
  /\ (last.op = "create" /\ last.ret = NULL) =>
       /\ last.t # NULL => tr[last.t].mem = "freed"
       /\ transports = last.input.table
       /\ DeviceRefCount = last.input.device_refs

(***************************************************************************)
(* Volume.                                                                 *)
(***************************************************************************)
\* The PCM whose volume the last call updated.
UpdatedPcm == tr[last.t].pcm[last.input.pcm]

\* C26: when a volume update sets the Volume property of the peer for an
\* A2DP PCM of which a channel is muted, the value set is 0.
C26_MutedSendsZero ==
  (/\ last.op = "volume_update"
   /\ last.rpc = "Set"
   /\ UpdatedPcm.volume[1].muted \/ UpdatedPcm.volume[2].muted) =>
    last.input.volume = 0

\* Whether the last volume update propagated the volume to the peer.
Propagated == last.rpc = "Set" \/ last.input.signal = "UPDATE_VOLUME"

\* Software volume on a profile whose peer would scale a second time.
DoubleScaling ==
  /\ UpdatedPcm.soft_volume
  /\ tr[last.t].profile \in {"A2DP_SOURCE", "HFP_AG", "HSP_AG"}

\* C27 as stated: a volume update propagates to the peer if and only if it
\* is not the case that soft_volume is set and the profile is A2DP source
\* or an audio gateway; and it always publishes one update and returns 0.
C27_PropagatesIffNotSoft ==
  last.op = "volume_update" =>
    /\ Propagated <=> ~DoubleScaling
    /\ last.input.updates = 1
    /\ last.ret = 0

\* C27: a volume update propagates to the peer if and only if it is not
\* the case that soft_volume is set and the profile is A2DP source or an
\* audio gateway, and the transport is an A2DP transport (Volume property
\* set) or a SCO transport with an RFCOMM session (UPDATE_VOLUME signal);
\* on every path, whether or not the property set fails, it publishes one
\* update to the PCM clients and returns 0.
C27_PropagatesIffNotSoftAndLinked ==
  last.op = "volume_update" =>
    /\ Propagated <=>
         /\ ~DoubleScaling
         /\ IsA2DP(tr[last.t].profile)
              \/ (IsSCO(tr[last.t].profile) /\ tr[last.t].rfcomm)
    /\ last.rpc = "Set" => IsA2DP(tr[last.t].profile)
    /\ last.input.signal = "UPDATE_VOLUME" =>
         IsSCO(tr[last.t].profile) /\ tr[last.t].rfcomm
    /\ last.input.updates = 1
    /\ last.ret = 0

\* A volume update whose property set failed, and one that did not
\* propagate, have published their update and returned 0.
C27_Witness ==
  /\ last.op = "volume_update"
  /\ last.rpc = "Set"
  /\ ~last.input.set_ok
  /\ last.input.updates = 1
  /\ last.ret = 0

(***************************************************************************)
(* The cleanup of a worker.                                                *)
(***************************************************************************)
\* The worker of slot s of t goes from position a to position b.
CleanupStep(t, s, a, b) == worker[t][s].st = a /\ worker'[t][s].st = b

\* The descriptor a thread has read from bt_fd under a PCM mutex, and works
\* with, is the one bt_fd holds and is open.
ReadFdValid(c) ==
  (pc[c][1] = "reader" /\ pc[c][2] = "use" /\ pc[c][4] # Closed) =>
    /\ pc[c][4] \in open_fds
    /\ tr[arg[c]].bt_fd = pc[c][4]

\* C29: in the cleanup of a worker the release strategy runs with both PCM
\* mutexes held by the worker, the mutexes are released before the worker's
\* reference is dropped, and after the unref the worker takes no step; and
\* a thread that reads bt_fd under a PCM mutex never works with a
\* descriptor the cleanup has closed.
C29_CleanupOrder ==
  [][/\ \A t \in TIds, s \in Slots :
          /\ CleanupStep(t, s, "cl_release", "cl_unlock") =>
               /\ HeldBy(t, WorkerId(t, s)) = PcmIdx
               /\ last'.op = "release" /\ last'.t = t
          /\ (tr[t].bt_fd # Closed /\ tr'[t].bt_fd = Closed) =>
               \E w \in Slots : CleanupStep(t, w, "cl_release", "cl_unlock")
          /\ CleanupStep(t, s, "cl_unlock", "cl_unref") =>
               HeldBy(t, WorkerId(t, s)) = PcmIdx /\ tr'[t].ref_count = tr[t].ref_count
          /\ CleanupStep(t, s, "cl_unref", "exited") =>
               /\ HeldBy(t, WorkerId(t, s)) = {}
               /\ tr'[t].ref_count = tr[t].ref_count - 1
                    \/ tr'[t].mem = "freed"
          /\ worker[t][s].st = "cl_unref" => worker'[t][s].st \in {"cl_unref", "exited"}
          /\ worker[t][s].st = "exited" => worker'[t][s].st \in {"exited", "none"}
     /\ \A c \in Callers : ReadFdValid(c)']_vars

\* A thread works with the descriptor it has read under a PCM mutex while
\* a cancelled worker of the transport waits for the mutex in its cleanup.
C29_Witness ==
  \E c \in Callers, s \in Slots :
    /\ pc[c][1] = "reader" /\ pc[c][2] = "use" /\ pc[c][4] # Closed
    /\ worker[arg[c]][s].st \in {"loop", "cl_lock2"}
    /\ worker[arg[c]][s].cancel

(***************************************************************************)
(* The HFP codec switch.                                                   *)
(***************************************************************************)
\* The caller c is inside ba_transport_select_codec_sco at position a.
SelectingAt(c, a) == pc[c][1] = "select_codec" /\ pc[c][2] = a

\* The positions from the lock of codec_selection_completed_mtx to the
\* beginning of the wait.
BeforeWait == {"lock1", "lock2", "release", "unlock", "signal", "cond_wait"}

\* A set-codec signal is pending at the RFCOMM worker of t.
SetCodecPending(t) ==
  tr[t].rfcomm_signal \in {"HFP_SET_CODEC_CVSD", "HFP_SET_CODEC_MSBC"}

\* The same after the step.
SetCodecPendingNext(t) ==
  tr'[t].rfcomm_signal \in {"HFP_SET_CODEC_CVSD", "HFP_SET_CODEC_MSBC"}

\* C30: in an HFP codec switch the set-codec signal is sent with both SCO
\* PCMs and the SCO socket closed and the PCM mutexes released; the caller
\* holds codec_selection_completed_mtx from before the signal until its
\* wait begins, so the RFCOMM worker, which signals the completion under
\* that mutex, finds the caller waiting and wakes it; and a call that has
\* begun returns, when the caller is scheduled fairly and the RFCOMM worker
\* signals the completion of every request.
C30_CodecSwitchCompletes ==
  /\ [][\A c \in Callers :
          /\ (SelectingAt(c, "signal") /\ pc[c][3] \in HfpCodecs) =>
               /\ tr'[arg[c]].rfcomm_signal = SetCodecSignal(pc[c][3])
               /\ tr[arg[c]].bt_fd = Closed
               /\ PcmFds(tr[arg[c]]) = {}
               /\ HeldBy(arg[c], c) = {}
               /\ tr[arg[c]].codec_selection_completed_mtx = c
               /\ pc'[c][2] = "cond_wait"
          /\ (pc[c][1] = "select_codec" /\ pc[c][2] \in BeforeWait) =>
               tr[arg[c]].codec_selection_completed_mtx = c
          /\ (pc[c][1] = "select_codec" /\ SetCodecPending(arg[c])
                /\ ~SetCodecPendingNext(arg[c])) =>
               /\ pc[c][2] # "cond_wait"
               /\ pc[c][2] = "wait" => pc'[c][2] = "woken"]_vars
  /\ \A c \in Callers : (pc[c][1] = "select_codec") ~> (pc[c] = Idle)

\* The RFCOMM worker has signalled the completion of a switch to a caller
\* that waited for it: the caller is woken, the codec is the requested one
\* and no signal is pending.
C30_Witness ==
  \E c \in Callers :
    /\ SelectingAt(c, "woken")
    /\ ~SetCodecPending(arg[c])
    /\ tr[arg[c]].codec = pc[c][3]
    /\ tr[arg[c]].bt_fd = Closed

(***************************************************************************)
(* The order of the locks.                                                 *)
(***************************************************************************)
\* The threads that work on transport t.
Threads(t) == Callers \cup {WorkerId(t, s) : s \in Slots}

\* The locks of the transport r that thread th holds between two steps.
OwnedIn(r, th) ==
  (IF r.type_mtx = th THEN {"type"} ELSE {})
  \cup (IF r.codec_selection_completed_mtx = th THEN {"completed"} ELSE {})
  \cup (IF r.pcm[1].mutex = th THEN {"pcm1"} ELSE {})
  \cup (IF r.pcm[2].mutex = th THEN {"pcm2"} ELSE {})
  \cup (IF \E i \in PcmIdx : r.pcm[i].synced_mtx = th THEN {"synced"} ELSE {})

\* This step is the ba_transport_unref of thread th on t that ends a
\* destroy or a worker's cleanup.
Unrefs(t, th) ==
  \/ \E s \in Slots : th = WorkerId(t, s) /\ CleanupStep(t, s, "cl_unref", "exited")
  \/ /\ th \in Callers
     /\ arg[th] = t /\ pc[th][2] = "unref" /\ pc'[th] # pc[th]

\* The locks of t that thread th acquires in this step: the mutexes it
\* comes to own, the bt_fd lock inside a release strategy and the table
\* lock inside an unref.
Taken(t, th) ==
  (OwnedIn(tr'[t], th) \ OwnedIn(tr[t], th))
  \cup (IF Releaser(t) = th THEN {"bt_fd"} ELSE {})
  \cup (IF Unrefs(t, th) THEN {"table"} ELSE {})

\* The position of a lock in an order.
Position(order, lock) == CHOOSE k \in 1..Len(order) : order[k] = lock

\* No thread acquires a lock while it holds one that comes later in the
\* order; and a caller outside every operation holds no lock, so that the
\* operations that take one lock and release it in the same step (lookup,
\* ref, unref, acquire, select_codec_a2dp) take it with nothing held.
OrderKept(order) ==
  /\ \A t \in TIds :
       \A th \in Threads(t) :
         \A h \in OwnedIn(tr[t], th) :
           \A a \in Taken(t, th) :
             Position(order, h) < Position(order, a)
  /\ \A t \in TIds, c \in Callers :
       pc'[c] = Idle => OwnedIn(tr'[t], c) = {}

\* The order of the list: table lock, type lock, bt_fd lock, PCM endpoints
\* lock (first then second mutex), synced mutex, codec_selection_completed
\* mutex.
ListedOrder == <<"table", "type", "bt_fd", "pcm1", "pcm2", "synced", "completed">>

\* The order the operations follow.
CodeOrder == <<"table", "type", "completed", "pcm1", "pcm2", "bt_fd", "synced">>

\* C28 as stated: every operation acquires locks only in the order table
\* lock, type lock, bt_fd lock, PCM endpoints lock, synced mutex,
\* codec_selection_completed mutex.
C28_ListedLockOrder == [][OrderKept(ListedOrder)]_vars

\* C28: every operation acquires locks only in the order table lock, type
\* lock, codec_selection_completed mutex, PCM endpoints lock, bt_fd lock,
\* synced mutex: no thread acquires a lock of this list while holding one
\* that comes later in it.
C28_LockOrder == [][OrderKept(CodeOrder)]_vars

\* The codec selection has just released the transport, inside the bt_fd
\* lock, holding the type lock, the completion mutex and both PCM mutexes.
C28_Witness ==
  \E c \in Callers :
    /\ SelectingAt(c, "unlock")
    /\ last.op = "release"
    /\ OwnedIn(tr[arg[c]], c) = {"type", "completed", "pcm1", "pcm2"}

(***************************************************************************)
(* Writes to the type of a transport.                                       *)
(***************************************************************************)
\* The type of the transport in slot t is written in this step, on a
\* transport that exists before and after it.
TypeWritten(t) ==
  /\ tr[t].mem = "alloc" /\ tr'[t].mem = "alloc"
  /\ (tr'[t].codec # tr[t].codec \/ tr'[t].profile # tr[t].profile)

\* C31: after a transport has been created, every write to its type
\* (profile or codec), the write of ba_transport_set_codec for a codec
\* reconfiguration included, is made by a thread that holds the type lock
\* of the transport when it writes.
C31_TypeWrittenUnderLock ==
  [][\A t \in TIds :
       TypeWritten(t) =>
         /\ last'.op = "set_codec" /\ last'.t = t
         /\ tr[t].type_mtx = last'.input.thread]_vars

(***************************************************************************)
(* The signal pipe.                                                         *)
(***************************************************************************)
\* The signals of a history of sends.
Sigs(sent) == [k \in 1..Len(sent) |-> sent[k].sig]

\* The receive that returned in the last step, on slot s of t.
Received(t, s) ==
  last.op = "recv_signal" /\ last.t = t /\ last.input.slot = s

\* C32: for each worker slot, the signals recv_signal returned are the
\* signals sent to the slot with send_signal, in order and each once, the
\* signals still in the pipe being the ones sent last; signals sent while
\* no worker runs on the slot stay in the pipe for the next worker; a short
\* or failed read returns PING and takes nothing from the pipe.
C32_SignalsInOrder ==
  \A t \in TIds : \A s \in Slots :
    tr[t].mem = "alloc" =>
      /\ Sigs(tr[t][s].sent) = tr[t][s].rcvd \o tr[t][s].pipe
      /\ Received(t, s) =>
           IF last.input.read = "record"
           THEN /\ tr[t][s].rcvd # <<>>
                /\ last.ret = tr[t][s].rcvd[Len(tr[t][s].rcvd)]
           ELSE last.ret = "PING"

\* A worker has just received the second of two different signals sent to
\* its slot, the first of them sent before any worker was started on it.
C32_Witness ==
  \E t \in TIds : \E s \in Slots :
    /\ tr[t].mem = "alloc"
    /\ Received(t, s) /\ last.input.read = "record"
    /\ Len(tr[t][s].rcvd) = 2
    /\ tr[t][s].rcvd[1] # tr[t][s].rcvd[2]
    /\ tr[t][s].sent[1].idle /\ tr[t][s].sent[2].idle

(***************************************************************************)
(* What the last unref frees.                                               *)
(***************************************************************************)
\* The step frees the transport in slot t.
FreeStep(t) == tr[t].mem = "alloc" /\ tr'[t].mem = "freed"

\* How often e is done in the events ev.
Count(ev, e) == Cardinality({k \in 1..Len(ev) : ev[k] = e})

\* The names of the descriptors a transport can own, and of those r owns.
Descriptors ==
  {"bt_fd"} \cup {PcmName(i) : i \in PcmIdx}
  \cup {PipeName(s, k) : s \in Slots, k \in 0..1}
Owned(r) ==
  (IF r.bt_fd # Closed THEN {"bt_fd"} ELSE {})
  \cup {PcmName(i) : i \in {j \in PcmIdx : r.pcm[j].fd # Closed}}
  \cup UNION {{PipeName(s, k) : k \in {j \in 0..1 : r[s].pipe_open[j + 1]}} :
                s \in Slots}

\* In the events ev, a is done before b.
Precedes(ev, a, b) ==
  \E i \in 1..Len(ev) : \E j \in 1..Len(ev) : i < j /\ ev[i] = a /\ ev[j] = b

\* C33: when the reference count of a transport goes to zero, every
\* descriptor it owns is closed exactly once and none stays open: bt_fd if
\* it is not -1, both PCM descriptors, each between the lock and the unlock
\* of the mutex of its PCM, and both ends of the pipes of both worker
\* slots; the reference to the device is dropped exactly once; all of it
\* after the table lock has been released.
C33_FreeClosesAll ==
  [][\A t \in TIds :
       FreeStep(t) =>
         /\ last'.op \in {"unref", "destroy", "cleanup"} /\ last'.t = t
         /\ LET ev == last'.input.events
                r == tr[t] IN
            /\ \A d \in Descriptors :
                 Count(ev, Event("close", d)) = IF d \in Owned(r) THEN 1 ELSE 0
            /\ \A i \in PcmIdx :
                 r.pcm[i].fd # Closed =>
                   /\ Precedes(ev, Event("lock", PcmName(i)),
                                   Event("close", PcmName(i)))
                   /\ Precedes(ev, Event("close", PcmName(i)),
                                   Event("unlock", PcmName(i)))
            /\ Count(ev, Event("unref", "device")) = 1
            /\ DeviceRefCount' = DeviceRefCount - 1
            /\ ev[1] = Event("unlock", "table")
            /\ Count(ev, Event("lock", "table")) = 0
            /\ open_fds' = open_fds \ ({r.bt_fd} \cup PcmFds(r))
            /\ last'.closed = ({r.bt_fd} \cup PcmFds(r)) \ {Closed}]_vars

\* A transport has just been freed by the unref of a client, with the
\* Bluetooth socket and a PCM descriptor still open: both were closed,
\* with the four ends of the pipes.
C33_Witness ==
  /\ last.op = "unref"
  /\ tr[last.t].mem = "freed"
  /\ Count(last.input.events, Event("close", "bt_fd")) = 1
  /\ Count(last.input.events, Event("close", "pcm1")) = 1
  /\ Cardinality(last.closed) = 2
  /\ \A s \in Slots : \A k \in 0..1 :
       Count(last.input.events, Event("close", PipeName(s, k))) = 1

(***************************************************************************)
(* Concurrent acquire and release calls.                                    *)
(***************************************************************************)
\* The callers inside the critical section of an acquire or release
\* strategy of t.
InBtSection(t) ==
  {c \in Callers :
     /\ arg[c] = t
     /\ pc[c][1] \in {"bt_acquire", "bt_release"}
     /\ pc[c][2] \in {"bt_check", "bt_ask", "bt_body", "bt_unlock"}}

\* The strategies exclude each other from the lock to the unlock, the
\* request included, and no descriptor in bt_fd is replaced or dropped while
\* it is open.
BtFdExclusive ==
  /\ \A t \in TIds :
       tr[t].mem = "alloc" =>
         /\ Cardinality(InBtSection(t)) <= 1
         /\ \A c \in InBtSection(t) : tr[t].bt_fd_mtx = c
  /\ \A t \in TIds :
       (tr[t].mem = "alloc" /\ tr[t].bt_fd # Closed) => tr[t].bt_fd \in open_fds

BtFdNotOverwritten ==
  \A t \in TIds :
    (/\ tr[t].mem = "alloc" /\ tr'[t].mem = "alloc"
     /\ tr[t].bt_fd # Closed /\ tr'[t].bt_fd # tr[t].bt_fd)
      => tr[t].bt_fd \notin open_fds'

\* Two acquire calls on t that have both left their critical section, c1
\* before c2 entered its own.
AcquiredInTurn(t, c1, c2) ==
  /\ c1 \in AcquiresDone(t) /\ c2 \in AcquiresDone(t)
  /\ c1 \in pc[c2][3].after

\* C34 as stated: acquire and release calls on one transport exclude each
\* other for their whole duration, the request included; of two concurrent
\* acquires on a transport that is not acquired, one makes the request
\* (or opens the SCO socket) and both return the same descriptor; no
\* descriptor in bt_fd is overwritten without having been closed.
C34_AcquireOnce ==
  /\ [][BtFdNotOverwritten]_vars
  /\ [](/\ BtFdExclusive
        /\ \A t \in TIds : \A c1 \in Callers : \A c2 \in Callers :
             (AcquiredInTurn(t, c1, c2) /\ pc[c1][3].asked) =>
               /\ ~pc[c2][3].asked
               /\ pc[c2][3].ret = pc[c1][3].ret)

\* C34, amended: the second of the two acquires makes no request and
\* returns the descriptor of the first if the first returned a descriptor
\* and no release has closed it in between.
C34_AcquireOnceIfAcquired ==
  /\ [][BtFdNotOverwritten]_vars
  /\ [](/\ BtFdExclusive
        /\ \A t \in TIds : \A c1 \in Callers : \A c2 \in Callers :
             (/\ AcquiredInTurn(t, c1, c2) /\ pc[c1][3].asked
              /\ pc[c1][3].ret # Closed
              /\ ~pc[c1][3].released) =>
               /\ ~pc[c2][3].asked
               /\ pc[c2][3].ret = pc[c1][3].ret)

\* Two acquire calls were under way at once on a transport that was not
\* acquired; the first got a descriptor from its request and the second
\* returns the same one.
C34_Witness ==
  \E t \in TIds : \E c1 \in Callers : \E c2 \in Callers :
    /\ AcquiredInTurn(t, c1, c2)
    /\ pc[c1][3].asked /\ pc[c1][3].ret # Closed /\ ~pc[c1][3].released
    /\ ~pc[c2][3].asked /\ pc[c2][3].ret = pc[c1][3].ret
    /\ tr[t].bt_fd = pc[c1][3].ret

\* The worker threads that have been created on slot s of t and have not
\* terminated.
LiveWorker(t, s) == worker[t][s].st \notin {"none", "exited"}

\* A step in which pthread_create is called on slot s of transport t.
CreatesOn(t, s) ==
  /\ last'.t = t
  /\ last'.input \in Seq(Slots)
  /\ \E i \in 1..Len(last'.input) : last'.input[i] = s

\* C35: in every reachable state each worker slot has at most one live
\* worker thread, and its id is the one recorded in the slot: for any
\* interleaving of concurrent ba_transport_start / set_a2dp_state(ACTIVE)
\* calls on one transport, no worker is created on a slot a worker was
\* already created on (no thread on the slot, the sentinel in its id), and
\* the id of a live worker stays recorded in its slot.
C35_OneWorkerPerSlot ==
  /\ [][\A t \in TIds : \A s \in Slots :
          CreatesOn(t, s) =>
            (worker[t][s].st = "none" /\ tr[t][s].id = MainThread)]_vars
  /\ [](\A t \in TIds : \A s \in Slots :
          LiveWorker(t, s) => tr[t][s].id = WorkerId(t, s))

\* A step in which a start returns -1 after calling pthread_create on the
\* slots last'.input: the last of them is the one that failed.
CreateFailed ==
  /\ last'.op \in {"start", "set_a2dp_state"}
  /\ last'.input \in Seq(Slots)
  /\ last'.ret = -1

\* C36: when ba_transport_thread_create fails to create the thread, it
\* returns -1 with the sentinel in the thread id of the slot, the running
\* flag of the slot as it was, and the reference count as it was before the
\* call: the count after the start is the count before it plus one for
\* each worker the start created before the failing call, no worker is
\* started on the slot, and the start returns the -1 of the failing call.
C36_CreateFailureRestores ==
  [][CreateFailed =>
       LET t == last'.t
           n == Len(last'.input)
           s == last'.input[n] IN
       /\ tr'[t][s].id = MainThread
       /\ tr'[t][s].running = tr[t][s].running
       /\ tr'[t].ref_count = tr[t].ref_count + (n - 1)
       /\ worker'[t][s] = worker[t][s]]_vars

\* A start has failed on its second worker, after creating the first.
C36_Witness ==
  /\ last.op \in {"start", "set_a2dp_state"}
  /\ last.ret = -1
  /\ last.input \in Seq(Slots)
  /\ Len(last.input) = 2
  /\ tr[last.t][last.input[2]].id = MainThread
  /\ tr[last.t][last.input[1]].id # MainThread

\* The caller c is inside select_codec_sco at the switch on the codec id:
\* it has released the SCO PCMs and the Bluetooth socket.
AtCodecSwitch(c) == pc[c][1] = "select_codec" /\ pc[c][2] = "signal"

\* C37: for every requested codec id, a select_codec_sco call that has
\* closed the SCO PCMs and the Bluetooth socket goes on to send one RFCOMM
\* set-codec signal and to wait for its completion: no call tears down the
\* link without requesting a codec change from the RFCOMM worker.
C37_TeardownRequestsCodec ==
  [][\A c \in Callers :
       (AtCodecSwitch(c) /\ pc'[c] # pc[c]) =>
         /\ pc'[c][2] = "cond_wait"
         /\ tr'[arg[c]].rfcomm_signal = SetCodecSignal(pc[c][3])]_vars

\* The caller c is inside ba_transport_pcm_drain, past the check of the
\* thread id of the slot.
InDrain(c) == pc[c][1] = "drain"

\* C38: every ba_transport_pcm_drain call that has passed its sentinel
\* check eventually returns under fair scheduling, also when the worker of
\* the slot is cancelled or returns after the check and before it handles
\* PCM_SYNC.
C38_DrainReturns == \A c \in Callers : InDrain(c) ~> ~InDrain(c)
====
